---- MODULE Spec2Model ----
(***************************************************************************)
(* Model of the Sermatec inverter client                                   *)
(* (custom_components/sermatec_inverter/sermatec_inverter).                *)
(*                                                                         *)
(* The client state is the Sermatec object (connected, pcuVersion, the     *)
(* reader/writer pair), the snapshot dictionaries handed to set(), and the *)
(* position of the single caller inside __sendQuery.  Frames are byte      *)
(* sequences; the frame codec, converters and validators are operators     *)
(* computed as the Python code computes them.                              *)
(***************************************************************************)
EXTENDS Integers, Sequences, FiniteSets, TLC

\* ------------------------------------------------------------------------
\* Bounds of the model (not program constants).
\* ------------------------------------------------------------------------
MaxVersion == 1
MaxLeaked == 2
MaxPayloadLen == 2
MaxSchemaVersion == 2
MaxMapLen == 3
MaxRawCode == 29
MaxSnapByte == 2
MaxFields == 3
MaxCycles == 2

\* ------------------------------------------------------------------------
\* Program constants.
\* ------------------------------------------------------------------------
QUERY_ATTEMPTS == 5
REPLY_OFFSET_DATA == 7
REQ_SIGNATURE == <<254, 85>>
REQ_APP_ADDRESS == <<100>>
REQ_INVERTER_ADDRESS == <<20>>
REQ_FOOTER == <<174>>
CHECKSUM_SEED == 15
CMD_SYSINFO == 152
CMD_RUNNING == 12
CMD_BMS == 13
CMD_BATTERY == 10
CMD_GRIDPV == 11
CMD_WPARAMS == 149
CMD_WPARAMS2 == 157
CMD_SET_ONOFF == 100
CMD_SET_PARAMS == 102
CMD_SET_6A == 106
ON_BYTE == 85
OFF_BYTE == 170
NO_VERSION == -1

\* The hard-coded requests of the legacy client (sermatec.py).
REQ_SYSINFO == <<254, 85, 100, 20, 152, 0, 0, 76, 174>>
REQ_BATTERY == <<254, 85, 100, 20, 10, 0, 0, 222, 174>>
REQ_GRIDPV == <<254, 85, 100, 20, 11, 0, 0, 223, 174>>
REQ_WPAMS == <<254, 85, 100, 20, 149, 0, 0, 65, 174>>

\* ------------------------------------------------------------------------
\* Byte helpers.
\* ------------------------------------------------------------------------
\* Bit i of a non-negative int.
Bit(a, i) == (a \div (2 ^ i)) % 2

\* Python slice s[from:to] with 0-based, already clamped bounds.
Slice(s, from, to) ==
    IF to <= from THEN <<>>
    ELSE [i \in 1..((IF to > Len(s) THEN Len(s) ELSE to) - from) |-> s[from + i]]

\* int.to_bytes(value, length, "big", signed=False)
RECURSIVE ToBytes(_, _)
ToBytes(value, length) ==
    IF length = 0 THEN <<>>
    ELSE Append(ToBytes(value \div 256, length - 1), value % 256)

\* ------------------------------------------------------------------------
\* Frame codec (protocol_parser.py).
\* ------------------------------------------------------------------------
\* Variant: the table without its entries for the set commands.
getResponseCommandsQueriesOnly(command) ==
    IF command = CMD_WPARAMS THEN <<CMD_WPARAMS, CMD_WPARAMS2>> ELSE <<command>>

getResponseCommands(command) ==
    IF command = CMD_WPARAMS THEN <<CMD_WPARAMS, CMD_WPARAMS2>>
    ELSE IF command \in {CMD_SET_ONOFF, CMD_SET_PARAMS, CMD_SET_6A} THEN <<>>
    ELSE <<command>>

\* __calculateChecksum: checksum = 0x0f, then checksum = (checksum & 0xff) ^ byte
\* for every byte.  Bit i of the running XOR is the parity of bit i of the
\* seed plus the number of bytes that have bit i set.
ChecksumBit(data, i) ==
    ((Bit(CHECKSUM_SEED, i) + Cardinality({n \in 1..Len(data) : Bit(data[n], i) = 1})) % 2) * (2 ^ i)

\* Variant: the fold started from 0 instead of the seed.
calculateChecksumNoSeed(data) ==
    <<(Cardinality({n \in 1..Len(data) : Bit(data[n], 0) = 1}) % 2)
        + (Cardinality({n \in 1..Len(data) : Bit(data[n], 1) = 1}) % 2) * 2
        + (Cardinality({n \in 1..Len(data) : Bit(data[n], 2) = 1}) % 2) * 4
        + (Cardinality({n \in 1..Len(data) : Bit(data[n], 3) = 1}) % 2) * 8
        + (Cardinality({n \in 1..Len(data) : Bit(data[n], 4) = 1}) % 2) * 16
        + (Cardinality({n \in 1..Len(data) : Bit(data[n], 5) = 1}) % 2) * 32
        + (Cardinality({n \in 1..Len(data) : Bit(data[n], 6) = 1}) % 2) * 64
        + (Cardinality({n \in 1..Len(data) : Bit(data[n], 7) = 1}) % 2) * 128>>

calculateChecksum(data) ==
    <<ChecksumBit(data, 0) + ChecksumBit(data, 1) + ChecksumBit(data, 2) + ChecksumBit(data, 3)
        + ChecksumBit(data, 4) + ChecksumBit(data, 5) + ChecksumBit(data, 6) + ChecksumBit(data, 7)>>

\* Variant: the checksum taken over the 7 header bytes only.
generateRequestChecksumOfHeader(command, payload) ==
    LET header == REQ_SIGNATURE \o REQ_APP_ADDRESS \o REQ_INVERTER_ADDRESS
                    \o <<command, 0, Len(payload)>>
    IN  header \o payload \o calculateChecksum(header) \o REQ_FOOTER

generateRequest(command, payload) ==
    LET request == REQ_SIGNATURE \o REQ_APP_ADDRESS \o REQ_INVERTER_ADDRESS
                     \o <<command, 0, Len(payload)>> \o payload
    IN  request \o calculateChecksum(request) \o REQ_FOOTER

\* Variant: the loop body without its checksum verification.
ResponseOkNoChecksum(response, commandCode) ==
    /\ Len(response) >= 8
    /\ Slice(response, 0, 2) = REQ_SIGNATURE
    /\ Slice(response, 2, 3) = REQ_INVERTER_ADDRESS
    /\ Slice(response, 3, 4) = REQ_APP_ADDRESS
    /\ response[5] = commandCode
    /\ response[6] = 0
    /\ response[Len(response)] = REQ_FOOTER[1]

\* Variant: the loop body without its response command check.
ResponseOkAnyCommand(response, commandCode) ==
    /\ Len(response) >= 8
    /\ Slice(response, 0, 2) = REQ_SIGNATURE
    /\ Slice(response, 2, 3) = REQ_INVERTER_ADDRESS
    /\ Slice(response, 3, 4) = REQ_APP_ADDRESS
    /\ response[6] = 0
    /\ Slice(response, Len(response) - 2, Len(response) - 1)
         = calculateChecksum(Slice(response, 0, Len(response) - 2))
    /\ response[Len(response)] = REQ_FOOTER[1]

\* One (response, commandCode) pair of the loop of checkResponseIntegrity.
ResponseOk(response, commandCode) ==
    /\ Len(response) >= 8
    /\ Slice(response, 0, 2) = REQ_SIGNATURE
    /\ Slice(response, 2, 3) = REQ_INVERTER_ADDRESS
    /\ Slice(response, 3, 4) = REQ_APP_ADDRESS
    /\ response[5] = commandCode
    /\ response[6] = 0
    /\ Slice(response, Len(response) - 2, Len(response) - 1)
         = calculateChecksum(Slice(response, 0, Len(response) - 2))
    /\ response[Len(response)] = REQ_FOOTER[1]

\* checkResponseIntegrity: "True" or "False" as returned.  The debug message
\* of the count test formats len(response), and response is the variable of
\* the loop further down, not yet bound there: the test raises
\* UnboundLocalError instead of returning False.
checkResponseIntegrity(responses, command) ==
    LET reponseCommands == getResponseCommands(command)
    IN  IF Len(responses) # Len(reponseCommands) THEN "UnboundLocalError"
        ELSE IF \A i \in 1..Len(responses) : ResponseOk(responses[i], reponseCommands[i])
        THEN "True" ELSE "False"

\* Variant: anything but the on sentinel counts as off.
isInverterOffUnlessOn(value) == value # <<ON_BYTE>>

isInverterOff(value) == value = <<OFF_BYTE>>

\* ------------------------------------------------------------------------
\* Python values handed to set(): bool, int or str.  The numeric field n of
\* a bool is 1/0, as bool is a subclass of int in Python (True == 1).
\* ------------------------------------------------------------------------
BoolV(b) == [k |-> "bool", n |-> IF b THEN 1 ELSE 0, s |-> ""]
IntV(n) == [k |-> "int", n |-> n, s |-> ""]
StrV(s) == [k |-> "str", n |-> 0, s |-> s]

\* Python == between two such values (also the dict-key and list membership test).
PyEq(x, y) ==
    IF x.k = "str" \/ y.k = "str"
    THEN x.k = "str" /\ y.k = "str" /\ x.s = y.s
    ELSE x.n = y.n

\* ------------------------------------------------------------------------
\* Converters (converters.py) and the tables of protocol_parser.py used by
\* the parameters.  A MapConverter is [kind, map, defNotFriendly,
\* defFriendly, raised], map being the sequence of <<raw code, friendly
\* value>> in the order of the dict, raised the exception of the
\* constructor ("" when it returned).
\* ------------------------------------------------------------------------

\* Variant: the value compared with the previous entry's only.
invMapHasPrevious(map, j) == j > 1 /\ PyEq(map[j - 1][2], map[j][2])

\* "value in self.__inv_map" in round j of the constructor's loop: the
\* inverse map holds the values of the rounds before.
invMapHas(map, j) == \E i \in 1..(j - 1) : PyEq(map[i][2], map[j][2])

MapConverter(map, defaultNotFriendly, defaultFriendly) ==
    [kind |-> "map", map |-> map,
     defNotFriendly |-> defaultNotFriendly, defFriendly |-> defaultFriendly,
     raised |-> IF \E j \in 1..Len(map) : invMapHas(map, j) THEN "DuplicateMapValue" ELSE ""]

DummyConverter == [kind |-> "dummy", map |-> <<>>,
                   defNotFriendly |-> 0, defFriendly |-> IntV(0), raised |-> ""]

CONVERTER_OPERATING_MODE ==
    MapConverter(<< <<1, StrV("General Mode")>>, <<2, StrV("Energy Storage Mode")>>,
                    <<3, StrV("Micro-grid")>>, <<4, StrV("Peak-Valley")>>,
                    <<5, StrV("AC Coupling")>> >>, 0, StrV("unknown"))

CONVERTER_EE_BINARY ==
    MapConverter(<< <<60928, BoolV(TRUE)>>, <<238, BoolV(FALSE)>> >>, 0, BoolV(FALSE))

CONVERTER_ON_OFF ==
    MapConverter(<< <<ON_BYTE, BoolV(TRUE)>>, <<OFF_BYTE, BoolV(FALSE)>> >>, 0, BoolV(FALSE))

\* Variant: the friendly value looked up among the raw codes.
fromFriendlyByCode(converter, value) ==
    IF converter.kind = "dummy" THEN value
    ELSE LET hits == {i \in 1..Len(converter.map) : PyEq(IntV(converter.map[i][1]), value)}
         IN  IF hits = {} THEN IntV(converter.defNotFriendly)
             ELSE IntV(converter.map[CHOOSE i \in hits : TRUE][1])

\* MapConverter.fromFriendly / DummyConverter.fromFriendly; the result is a
\* Python value (the dummy converter hands back whatever it was given).
fromFriendly(converter, value) ==
    IF converter.kind = "dummy" THEN value
    ELSE LET hits == {i \in 1..Len(converter.map) : PyEq(converter.map[i][2], value)}
         IN  IF hits = {} THEN IntV(converter.defNotFriendly)
             ELSE IntV(converter.map[CHOOSE i \in hits : TRUE][1])

\* ------------------------------------------------------------------------
\* Validators (validators.py).
\* ------------------------------------------------------------------------
EnumValidator(allowed_values) == [kind |-> "enum", allowed |-> allowed_values, min |-> 0, max |-> 0]
IntRangeValidator(min_value, max_value) == [kind |-> "range", allowed |-> {}, min |-> min_value, max |-> max_value]

validate(validator, value) ==
    IF validator.kind = "enum"
    THEN \E a \in validator.allowed : PyEq(IntV(a), value)
    ELSE value.k = "int" /\ validator.min <= value.n /\ value.n <= validator.max

\* ------------------------------------------------------------------------
\* SERMATEC_PARAMETERS and the payload builders.
\* ------------------------------------------------------------------------
SermatecParameter(command, byteLength, converter, validator, shouldBeOff) ==
    [command |-> command, byteLength |-> byteLength, converter |-> converter,
     validator |-> validator, shouldBeOff |-> shouldBeOff]

\* Variant: the off-precondition also asked of the power switch itself.
SermatecParametersOnOffGuarded ==
    [onOff         |-> SermatecParameter(CMD_SET_ONOFF, 1, CONVERTER_ON_OFF,
                                         EnumValidator({ON_BYTE, OFF_BYTE}), TRUE),
     operatingMode |-> SermatecParameter(CMD_SET_PARAMS, 2, CONVERTER_OPERATING_MODE,
                                         EnumValidator({1, 2, 3, 4, 5}), FALSE),
     antiBackflow  |-> SermatecParameter(CMD_SET_PARAMS, 2, CONVERTER_EE_BINARY,
                                         EnumValidator({60928, 238}), TRUE),
     soc           |-> SermatecParameter(CMD_SET_PARAMS, 2, DummyConverter,
                                         IntRangeValidator(10, 100), FALSE)]

SERMATEC_PARAMETERS ==
    [onOff         |-> SermatecParameter(CMD_SET_ONOFF, 1, CONVERTER_ON_OFF,
                                         EnumValidator({ON_BYTE, OFF_BYTE}), FALSE),
     operatingMode |-> SermatecParameter(CMD_SET_PARAMS, 2, CONVERTER_OPERATING_MODE,
                                         EnumValidator({1, 2, 3, 4, 5}), FALSE),
     antiBackflow  |-> SermatecParameter(CMD_SET_PARAMS, 2, CONVERTER_EE_BINARY,
                                         EnumValidator({60928, 238}), TRUE),
     soc           |-> SermatecParameter(CMD_SET_PARAMS, 2, DummyConverter,
                                         IntRangeValidator(10, 100), FALSE)]

\* Variant: the last two entries of the payload exchanged.
TAGS_66SocBeforeBatteryCharge ==
    <<"price1", "price2", "price3", "price4", "con", "chargePower", "operatingMode",
      "gridSwitch", "adjustMethod", "antiBackflow", "soc", "batteryCharge">>

\* Tags that build66Payload concatenates, in its order.
TAGS_66 ==
    <<"price1", "price2", "price3", "price4", "con", "chargePower", "operatingMode",
      "gridSwitch", "adjustMethod", "antiBackflow", "batteryCharge", "soc">>

RECURSIVE Concat66(_, _)
Concat66(taggedData, i) ==
    IF i > Len(TAGS_66) THEN <<0, 0>>
    ELSE taggedData[TAGS_66[i]] \o Concat66(taggedData, i + 1)

\* build66Payload: [ok, payload]; ok = FALSE stands for MissingTaggedData.
build66Payload(taggedData) ==
    IF \E i \in 1..Len(TAGS_66) : TAGS_66[i] \notin DOMAIN taggedData
    THEN [ok |-> FALSE, payload |-> <<>>]
    ELSE [ok |-> TRUE, payload |-> Concat66(taggedData, 1)]

build64Payload(taggedData) ==
    IF "onOff" \notin DOMAIN taggedData
    THEN [ok |-> FALSE, payload |-> <<>>]
    ELSE [ok |-> TRUE, payload |-> taggedData["onOff"]]

\* ------------------------------------------------------------------------
\* Inputs of the model.
\* ------------------------------------------------------------------------
Versions == 0..MaxVersion
ConnectArgs == {NO_VERSION} \cup Versions
QueryCmds == {CMD_SYSINFO, CMD_WPARAMS}
SetTags == {"onOff", "antiBackflow", "soc", "volume"}
SetValues == {BoolV(TRUE), BoolV(FALSE), IntV(10), IntV(101), StrV("bogus")}

\* A frame as the inverter sends it: the request layout with the sender and
\* receiver addresses exchanged.
Response(command, payload) ==
    LET head == REQ_SIGNATURE \o REQ_INVERTER_ADDRESS \o REQ_APP_ADDRESS
                  \o <<command, 0, Len(payload)>> \o payload
    IN  head \o calculateChecksum(head) \o REQ_FOOTER

\* The same frame with a damaged checksum byte.
Damaged(frame) == [frame EXCEPT ![Len(frame) - 1] = (@ + 1) % 256]

\* What one reader.read(256) can deliver while the peer is up; the empty
\* byte string is what read() returns once the peer has closed.
PeerFrames ==
    {Response(CMD_SYSINFO, <<>>), Response(CMD_WPARAMS, <<>>), Response(CMD_WPARAMS2, <<>>),
     Damaged(Response(CMD_SYSINFO, <<>>)), <<254, 85>>}
EOF_READ == <<>>

\* The entry parsedData["protocol_version_number"] of the decoded
\* systemInformation reply, as far as getPCUVersion looks at it.
NoReply == [has |-> FALSE, value |-> IntV(0)]
ParsedVersions ==
    {NoReply, [has |-> TRUE, value |-> StrV("n/a")]}
      \cup {[has |-> TRUE, value |-> IntV(n)] : n \in Versions}

\* Snapshots a caller may hold (tag -> raw bytes).
EmptySnap == [t \in {} |-> <<>>]
Tags66Set == {TAGS_66[i] : i \in 1..Len(TAGS_66)}
Params66 == [t \in Tags66Set |->
               IF t = "antiBackflow" THEN <<0, 238>>
               ELSE IF t = "soc" THEN <<0, 50>> ELSE <<0, 1>>]
WithOnOff(snap, bytes) == [t \in DOMAIN snap \cup {"onOff"} |-> IF t = "onOff" THEN bytes ELSE snap[t]]
\* The snapshots and set() arguments of the session specification.
SessionSnapshots == {EmptySnap, WithOnOff(Params66, <<OFF_BYTE>>)}
SessionSetTags == {"onOff", "antiBackflow"}
SessionSetValues == {BoolV(TRUE), BoolV(FALSE)}

Without(snap, tag) == [t \in DOMAIN snap \ {tag} |-> snap[t]]

InitSnapshots ==
    {Params66, WithOnOff(Params66, <<OFF_BYTE>>), WithOnOff(Params66, <<ON_BYTE>>),
     WithOnOff(Params66, <<0>>), WithOnOff(EmptySnap, <<OFF_BYTE>>),
     WithOnOff(Without(Params66, "soc"), <<OFF_BYTE>>)}

\* ------------------------------------------------------------------------
\* Inputs of the frame codec: commands, payloads, and the frame lists handed
\* to checkResponseIntegrity.
\* ------------------------------------------------------------------------
CodecCommands ==
    {CMD_SYSINFO, CMD_BATTERY, CMD_GRIDPV, CMD_WPARAMS, CMD_SET_ONOFF, CMD_SET_PARAMS}
ResponseCodes == CodecCommands \cup {CMD_WPARAMS2}
PayloadBytes == {0, 85, 255}
PayloadsUpTo(n) == UNION {[1..k -> PayloadBytes] : k \in 0..n}
\* The longest payload whose length fits the length byte of the header.
LongPayload == [i \in 1..255 |-> i]
CodecPayloads == PayloadsUpTo(MaxPayloadLen) \cup {LongPayload}

\* A request as the inverter would echo it: sender and receiver exchanged.
Swapped(frame) == [frame EXCEPT ![3] = frame[4], ![4] = frame[3]]
Echo(command, payload) == Swapped(generateRequest(command, payload))

\* Damage done to a frame on its way.
ChecksumSet(frame, v) == [frame EXCEPT ![Len(frame) - 1] = v]
CommandSet(frame, c) == [frame EXCEPT ![5] = c]
Truncated(frame, n) == Slice(frame, 0, n)
\* The length byte replaced, the checksum being that of the changed frame.
LengthSet(frame, n) ==
    LET r == [frame EXCEPT ![REPLY_OFFSET_DATA] = n]
    IN  ChecksumSet(r, calculateChecksum(Slice(r, 0, Len(r) - 2))[1])

CodecFrames ==
    {Echo(c, p) : c \in ResponseCodes, p \in CodecPayloads}
      \cup {ChecksumSet(Echo(c, p), v) : c \in ResponseCodes, p \in {<<>>, <<85>>}, v \in 0..255}
      \cup {Truncated(Echo(c, p), n) : c \in ResponseCodes, p \in CodecPayloads, n \in 0..8}
      \cup {CommandSet(Echo(c, p), d) : c \in ResponseCodes, d \in ResponseCodes,
                                          p \in CodecPayloads}
      \cup {LengthSet(Echo(c, p), n) : c \in ResponseCodes, p \in PayloadsUpTo(1),
                                         n \in 0..MaxPayloadLen}

CodecResponseLists ==
    {<<>>} \cup {<<f>> : f \in CodecFrames}
      \cup {<<Echo(c, <<>>), Echo(d, <<>>)>> : c \in ResponseCodes, d \in ResponseCodes}
      \cup {<<Echo(CMD_WPARAMS, <<>>), Echo(CMD_WPARAMS2, <<>>), Echo(CMD_WPARAMS2, <<>>)>>}

\* ------------------------------------------------------------------------
\* The protocol schema (osim["versions"] of the protocol file) and
\* __getCommandByVersion.  A version entry is [version, commands]; a command
\* definition is [type, since]: type is the hexadecimal string of the
\* command code, since names the version entry the definition was written
\* in (it stands for the definition's content).
\* ------------------------------------------------------------------------
HexTable ==
    << <<"0", 0>>, <<"1", 1>>, <<"2", 2>>, <<"3", 3>>, <<"4", 4>>, <<"5", 5>>, <<"6", 6>>,
       <<"7", 7>>, <<"8", 8>>, <<"9", 9>>, <<"a", 10>>, <<"b", 11>>, <<"c", 12>>, <<"d", 13>>,
       <<"e", 14>>, <<"f", 15>>, <<"A", 10>>, <<"B", 11>>, <<"C", 12>>, <<"D", 13>>,
       <<"E", 14>>, <<"F", 15>> >>

HexValue(ch) == HexTable[CHOOSE i \in 1..Len(HexTable) : HexTable[i][1] = ch][2]

\* int(text, base=16), text being a sequence of hexadecimal digits.
RECURSIVE ParseHexUpTo(_, _)
ParseHexUpTo(text, n) ==
    IF n = 0 THEN 0 ELSE 16 * ParseHexUpTo(text, n - 1) + HexValue(text[n])

ParseHex(text) == ParseHexUpTo(text, Len(text))

\* cmd = {} before the loop.
NoCommand == [type |-> <<>>, since |-> -1]

\* next((cmd for cmd in ver["commands"] if int(cmd["type"], base=16) == command), cmd)
NextDefinition(ver, command, cmd) ==
    LET hits == {k \in 1..Len(ver.commands) : ParseHex(ver.commands[k].type) = command}
    IN  IF hits = {} THEN cmd
        ELSE ver.commands[CHOOSE k \in hits : \A m \in hits : k <= m]

\* cmd after the first n rounds of the loop over allSupportedVersions.
RECURSIVE CommandAfter(_, _, _)
CommandAfter(allSupportedVersions, n, command) ==
    IF n = 0 THEN NoCommand
    ELSE NextDefinition(allSupportedVersions[n], command,
                        CommandAfter(allSupportedVersions, n - 1, command))

\* Variant: only the entries of a version below the requested one.
getCommandByVersionBelow(osimVersions, command, version) ==
    LET allSupportedVersions == SelectSeq(osimVersions, LAMBDA ver : ver.version < version)
        cmd == CommandAfter(allSupportedVersions, Len(allSupportedVersions), command)
    IN  IF cmd = NoCommand THEN [status |-> "CommandNotFoundInProtocol", cmd |-> NoCommand]
        ELSE [status |-> "ok", cmd |-> cmd]

\* __getCommandByVersion
getCommandByVersion(osimVersions, command, version) ==
    LET allSupportedVersions == SelectSeq(osimVersions, LAMBDA ver : ver.version <= version)
        cmd == CommandAfter(allSupportedVersions, Len(allSupportedVersions), command)
    IN  IF cmd = NoCommand THEN [status |-> "CommandNotFoundInProtocol", cmd |-> NoCommand]
        ELSE [status |-> "ok", cmd |-> cmd]

\* The schemas of the model: version entries in ascending order of version,
\* each defining some of the commands 0x98 and 0x0A.
SchemaVersions == 0..MaxSchemaVersion
EntryTypes == {<<>>, << <<"9", "8">> >>, << <<"0", "A">> >>, << <<"9", "8">>, <<"0", "a">> >>}
Ascending(S) ==
    CHOOSE s \in [1..Cardinality(S) -> S] : \A i, j \in 1..Cardinality(S) : i < j => s[i] < s[j]
Schema(S, types) ==
    [i \in 1..Cardinality(S) |->
        [version  |-> Ascending(S)[i],
         commands |-> [k \in 1..Len(types[Ascending(S)[i]]) |->
                         [type |-> types[Ascending(S)[i]][k], since |-> Ascending(S)[i]]]]]
Schemas(versions) == UNION {{Schema(S, types) : types \in [S -> EntryTypes]} : S \in SUBSET versions}

\* The tables handed to MapConverter: dicts of up to `longest` entries, the
\* raw codes (keys) distinct, in any order.
FriendlyValues == {StrV("a"), StrV("b"), BoolV(TRUE), IntV(1), IntV(2)}
MapTables(longest) ==
    UNION {{t \in [1..k -> (1..longest) \X FriendlyValues] :
              \A i, j \in 1..k : i # j => t[i][1] # t[j][1]} : k \in 0..longest}

\* ------------------------------------------------------------------------
\* State.
\* ------------------------------------------------------------------------
VARIABLES
    connected,    \* self.connected
    pcuVersion,   \* self.pcuVersion
    sock,         \* transport behind self.writer: "none", "open" or "closed"
    eof,          \* the peer has closed its side of the current connection
    leaked,       \* connections still open that self.writer no longer refers to
    inv,          \* the public call in progress, or the last one made
    running,      \* TRUE while the call of inv has not returned or raised
    q,            \* position of the caller inside __sendQuery
    lastOutcome,  \* how the latest attempt of __sendQuery in the call of inv ended
    attempts,     \* attempts of __sendQuery ended during the call of inv
    writes,       \* writer.write() calls made during the call of inv
    lastWritten,  \* the bytes of the latest writer.write() of the call of inv
    qres,         \* how __sendQuery ended in the call of inv
    ret,          \* how the call of inv ended
    snapshot,     \* the dictionary the caller passes to set() as previousData
    defaultSnap,  \* the dictionary bound to set()'s default previousData = {}
    applied       \* a function of the parser or the converters applied on its own:
                  \* its name, its arguments and, once done, its result

vars == <<connected, pcuVersion, sock, eof, leaked, inv, running, q, lastOutcome, attempts,
          writes, lastWritten, qres, ret, snapshot, defaultSnap, applied>>

session == <<connected, pcuVersion, sock, eof, leaked, inv, running, q, lastOutcome, attempts,
             writes, lastWritten, qres, ret, snapshot, defaultSnap>>

NotApplied == [fn |-> "none", done |-> FALSE]

IdleQ == [pc |-> "idle", cmd |-> 0, data |-> <<>>, need |-> 0, attempt |-> 0, resp |-> <<>>]

Invocation(op, version, cmd, tag, value, dflt, pre) ==
    [op |-> op, version |-> version, cmd |-> cmd, tag |-> tag, value |-> value,
     dflt |-> dflt, preConnected |-> connected, preSnap |-> pre]

Result(status, frames) == [status |-> status, frames |-> frames]

\* The state after Sermatec(host, port), with the caller holding one of `snaps`.
Constructed(snaps) ==
    /\ connected = FALSE
    /\ pcuVersion = 0
    /\ sock = "none"
    /\ eof = FALSE
    /\ leaked = 0
    /\ inv = [op |-> "init", version |-> NO_VERSION, cmd |-> 0, tag |-> "", value |-> IntV(0),
              dflt |-> FALSE, preConnected |-> FALSE, preSnap |-> EmptySnap]
    /\ running = FALSE
    /\ q = IdleQ
    /\ lastOutcome = "none"
    /\ attempts = 0
    /\ writes = 0
    /\ lastWritten = <<>>
    /\ qres = Result("none", <<>>)
    /\ ret = Result("none", <<>>)
    /\ snapshot \in snaps
    /\ defaultSnap = EmptySnap

Init == Constructed(SessionSnapshots) /\ applied = NotApplied

InitSet == Constructed(InitSnapshots) /\ applied = NotApplied

isConnected == connected

\* ------------------------------------------------------------------------
\* Sermatec.__sendQuery / __sendQueryAttempt.
\* ------------------------------------------------------------------------

\* getPCUVersion applied to the decoded systemInformation reply.
getPCUVersion(parsed) ==
    IF ~parsed.has THEN [ok |-> FALSE, version |-> 0]
    ELSE IF parsed.value.k = "str" THEN [ok |-> FALSE, version |-> 0]
    ELSE [ok |-> TRUE, version |-> parsed.value.n]

\* Variant: the attempt judged by the number of frames alone.
AttemptOutcomeCountOnly(responseData, command, responsesCount) ==
    IF Len(responseData) # responsesCount THEN "ConnectionResetError" ELSE "Ok"

\* The tail of __sendQueryAttempt once every expected read has returned:
\* the count check, then the integrity check.
AttemptOutcome(responseData, command, responsesCount) ==
    IF Len(responseData) # responsesCount THEN "ConnectionResetError"
    ELSE IF checkResponseIntegrity(responseData, command) = "True" THEN "Ok"
    ELSE IF checkResponseIntegrity(responseData, command) = "False"
    THEN "FailedResponseIntegrityCheck"
    ELSE checkResponseIntegrity(responseData, command)

\* Variants of the attempt loop with a slip in it: a read timeout ends the
\* call, the attempt count is compared one too late, a reset is retried.
LoopDecisionNoRetryAfterRecvTimeout(outcome, attempt) ==
    IF outcome = "Ok" THEN "return"
    ELSE IF outcome = "ConnectionResetError" THEN "ConnectionResetError"
    ELSE IF outcome = "RecvTimeout" \/ attempt + 1 = QUERY_ATTEMPTS THEN "CommunicationError"
    ELSE "retry"

LoopDecisionOneMore(outcome, attempt) ==
    IF outcome = "Ok" THEN "return"
    ELSE IF outcome = "ConnectionResetError" THEN "ConnectionResetError"
    ELSE IF attempt = QUERY_ATTEMPTS THEN "CommunicationError"
    ELSE "retry"

LoopDecisionRetriesReset(outcome, attempt) ==
    IF outcome = "Ok" THEN "return"
    ELSE IF attempt + 1 = QUERY_ATTEMPTS
    THEN (IF outcome = "ConnectionResetError" THEN outcome ELSE "CommunicationError")
    ELSE "retry"

\* The try/except/else of the attempt loop of __sendQuery and the check
\* after it: what the loop does once attempt number `attempt` (0-based)
\* ended with `outcome`.
LoopDecision(outcome, attempt) ==
    IF outcome = "Ok" THEN "return"
    ELSE IF outcome = "ConnectionResetError" THEN "ConnectionResetError"
    ELSE IF attempt + 1 = QUERY_ATTEMPTS THEN "CommunicationError"
    ELSE "retry"

\* pcuVersion as connect() leaves it after the discovery query.
DiscoveredVersion(status, parsed) ==
    IF status = "ok" /\ getPCUVersion(parsed).ok THEN getPCUVersion(parsed).version ELSE 0

\* What connect() hands back after the discovery query ended with `status`.
ConnectReturn(status) ==
    IF status \in {"ok", "CommunicationError", "ConnectionResetError"} THEN "true" ELSE status

\* __sendQuery has returned or raised: the public call of inv finishes.
EndCall(status, frames, parsed) ==
    /\ q' = IdleQ
    /\ qres' = Result(status, frames)
    /\ running' = FALSE
    /\ IF inv.op = "connect"
       THEN /\ ret' = Result(ConnectReturn(status), <<>>)
            /\ pcuVersion' = IF ConnectReturn(status) = "true"
                             THEN DiscoveredVersion(status, parsed) ELSE pcuVersion
       ELSE /\ ret' = Result(status, frames)
            /\ UNCHANGED pcuVersion

\* One attempt has ended.
EndAttempt(outcome, frames, parsed) ==
    /\ lastOutcome' = outcome
    /\ attempts' = attempts + 1
    /\ LET d == LoopDecision(outcome, q.attempt)
       IN  IF d = "retry"
           THEN /\ q' = [q EXCEPT !.pc = "write", !.attempt = @ + 1, !.resp = <<>>]
                /\ UNCHANGED <<qres, ret, running, pcuVersion>>
           ELSE EndCall(IF d = "return" THEN "ok" ELSE d,
                        IF d = "return" THEN frames ELSE <<>>, parsed)

\* Entry of __sendQuery on a connected session: build the frame, start attempt 0.
StartQuery(command, payload) ==
    q' = [pc |-> "write", cmd |-> command, data |-> generateRequest(command, payload),
          need |-> Len(getResponseCommands(command)), attempt |-> 0, resp |-> <<>>]

\* writer.write(dataToSend); await wait_for(writer.drain(), QUERY_WRITE_TIMEOUT).
\* A reset is reported by the transport, which has closed its socket by then.
WriteStep(o) ==
    /\ q.pc = "write"
    /\ writes' = writes + 1
    /\ lastWritten' = q.data
    /\ UNCHANGED <<eof, leaked, inv, snapshot, defaultSnap, applied>>
    /\ \/ /\ o = "ok"
          /\ UNCHANGED sock
          /\ IF q.need = 0
             THEN /\ connected' = IF AttemptOutcome(<<>>, q.cmd, q.need) = "ConnectionResetError"
                                  THEN FALSE ELSE connected
                  /\ EndAttempt(AttemptOutcome(<<>>, q.cmd, q.need), <<>>, NoReply)
             ELSE /\ q' = [q EXCEPT !.pc = "read"]
                  /\ UNCHANGED <<connected, pcuVersion, running, lastOutcome, attempts, qres, ret>>
       \/ /\ o = "timeout"
          /\ UNCHANGED <<connected, sock>>
          /\ EndAttempt("SendTimeout", <<>>, NoReply)
       \/ /\ o = "reset"
          /\ connected' = FALSE
          /\ sock' = "closed"
          /\ EndAttempt("ConnectionResetError", <<>>, NoReply)

\* One await wait_for(reader.read(256), QUERY_READ_TIMEOUT) of the read loop;
\* after the last expected read the attempt is judged.
Reading(o, frame, parsed) ==
    /\ q.pc = "read"
    /\ UNCHANGED <<leaked, inv, writes, lastWritten, snapshot, defaultSnap, applied>>
    /\ \/ /\ o = "data"
          /\ eof => frame = EOF_READ
          /\ eof' = (eof \/ frame = EOF_READ)
          /\ UNCHANGED sock
          /\ LET responseData == Append(q.resp, frame)
             IN  IF Len(responseData) < q.need
                 THEN /\ q' = [q EXCEPT !.resp = responseData]
                      /\ UNCHANGED <<connected, pcuVersion, running, lastOutcome, attempts, qres, ret>>
                 ELSE /\ connected' = IF AttemptOutcome(responseData, q.cmd, q.need) = "ConnectionResetError"
                                      THEN FALSE ELSE connected
                      /\ EndAttempt(AttemptOutcome(responseData, q.cmd, q.need), responseData, parsed)
       \/ /\ o = "timeout"
          /\ ~eof
          /\ UNCHANGED <<connected, sock, eof>>
          /\ EndAttempt("RecvTimeout", <<>>, parsed)
       \/ /\ o = "reset"
          /\ connected' = FALSE
          /\ sock' = "closed"
          /\ UNCHANGED eof
          /\ EndAttempt("ConnectionResetError", <<>>, parsed)

\* The same, the peer sending the frames of the session specification.
ReadStep(o, frame, parsed) ==
    /\ frame \in PeerFrames \cup {EOF_READ}
    /\ Reading(o, frame, parsed)

\* ------------------------------------------------------------------------
\* Public operations of Sermatec.
\* ------------------------------------------------------------------------

\* A public call starts: the record of the call and its counters.
StartCall(op, version, cmd, tag, value, dflt, pre) ==
    /\ ~running
    /\ inv' = Invocation(op, version, cmd, tag, value, dflt, pre)
    /\ writes' = 0
    /\ lastWritten' = <<>>
    /\ attempts' = 0
    /\ lastOutcome' = "none"

\* The same, made by a caller the model does not follow.
BeginCall(op, version, cmd, tag, value, dflt, pre) ==
    /\ StartCall(op, version, cmd, tag, value, dflt, pre)
    /\ UNCHANGED applied

\* The call returns or raises without having entered __sendQuery.
Return(status) ==
    /\ ret' = Result(status, <<>>)
    /\ qres' = Result("none", <<>>)
    /\ running' = FALSE
    /\ UNCHANGED q

\* Variant: __sendQuery without its isConnected() test.
EnterQueryUnchecked(command, payload) ==
    /\ StartQuery(command, payload)
    /\ running' = TRUE
    /\ qres' = Result("none", <<>>)
    /\ ret' = Result("none", <<>>)

\* Entry of __sendQuery as the first await of a public call.
EnterQuery(command, payload) ==
    IF isConnected
    THEN /\ StartQuery(command, payload)
         /\ running' = TRUE
         /\ qres' = Result("none", <<>>)
         /\ ret' = Result("none", <<>>)
    ELSE /\ qres' = Result("NotConnected", <<>>)
         /\ ret' = Result("NotConnected", <<>>)
         /\ running' = FALSE
         /\ UNCHANGED q

\* Variant: version 0 taken for "no version given".
PinnedIfPositive(version) == version > 0

\* connect()'s test for an explicitly stated version.
Pinned(version) == version # NO_VERSION

\* The body of connect(version): tcp is how asyncio.open_connection under the
\* 3 s timeout ended.  Without a pinned version the call goes on into the
\* discovery query.
Connecting(version, tcp) ==
    /\ leaked <= MaxLeaked
    /\ UNCHANGED <<snapshot, defaultSnap>>
    /\ IF isConnected
       THEN /\ Return("true")
            /\ UNCHANGED <<connected, pcuVersion, sock, eof, leaked>>
       ELSE \/ /\ tcp = "fail"
               /\ connected' = FALSE
               /\ Return("false")
               /\ UNCHANGED <<pcuVersion, sock, eof, leaked>>
            \/ /\ tcp = "ok"
               /\ connected' = TRUE
               /\ sock' = "open"
               /\ eof' = FALSE
               /\ leaked' = IF sock = "open" THEN leaked + 1 ELSE leaked
               /\ IF ~Pinned(version)
                  THEN /\ StartQuery(CMD_SYSINFO, <<>>)
                       /\ running' = TRUE
                       /\ qres' = Result("none", <<>>)
                       /\ ret' = Result("none", <<>>)
                       /\ UNCHANGED pcuVersion
                  ELSE /\ pcuVersion' = version
                       /\ Return("true")

\* connect(version)
Connect(version, tcp) ==
    /\ BeginCall("connect", version, 0, "", IntV(0), FALSE, EmptySnap)
    /\ Connecting(version, tcp)

\* Variants of disconnect(): the flag is not cleared; the writer is not closed.
DisconnectKeepsFlag ==
    /\ BeginCall("disconnect", NO_VERSION, 0, "", IntV(0), FALSE, EmptySnap)
    /\ IF connected THEN sock' = "closed" ELSE UNCHANGED sock
    /\ Return("ok")
    /\ UNCHANGED <<connected, pcuVersion, eof, leaked, snapshot, defaultSnap>>

DisconnectKeepsWriter ==
    /\ BeginCall("disconnect", NO_VERSION, 0, "", IntV(0), FALSE, EmptySnap)
    /\ connected' = FALSE
    /\ Return("ok")
    /\ UNCHANGED <<sock, pcuVersion, eof, leaked, snapshot, defaultSnap>>

\* The body of disconnect().
Disconnecting ==
    /\ StartCall("disconnect", NO_VERSION, 0, "", IntV(0), FALSE, EmptySnap)
    /\ IF connected
       THEN /\ sock' = "closed"
            /\ connected' = FALSE
       ELSE UNCHANGED <<sock, connected>>
    /\ Return("ok")
    /\ UNCHANGED <<pcuVersion, eof, leaked, snapshot, defaultSnap>>

\* disconnect(), made by a caller the model does not follow.
Disconnect == Disconnecting /\ UNCHANGED applied

\* getCustom(command) / getCustomRaw(command): the frames of the reply.
GetCustom(command) ==
    /\ BeginCall("getCustom", NO_VERSION, command, "", IntV(0), FALSE, EmptySnap)
    /\ EnterQuery(command, <<>>)
    /\ UNCHANGED <<connected, pcuVersion, sock, eof, leaked, snapshot, defaultSnap>>

\* getCustom after __sendQuery: the (responseCode, response) pairs of
\* zip(responses, responseCodes), each of which is handed to parseReply and
\* merged into the returned map; zip stops at the shorter of the two lists.
ParsedPairs(responses, command) ==
    LET responseCodes == getResponseCommands(command)
        n == IF Len(responses) < Len(responseCodes) THEN Len(responses) ELSE Len(responseCodes)
    IN  [i \in 1..n |-> <<responseCodes[i], responses[i]>>]

\* The dictionary taggedDataToSend[tag] = ... leaves behind.
Store(previousData, tag, bytes) ==
    [t \in DOMAIN previousData \cup {tag} |-> IF t = tag THEN bytes ELSE previousData[t]]

\* The off-precondition of set(): "" when it lets the call go on.
OffCheck(parameterInfo, previousData) ==
    IF ~parameterInfo.shouldBeOff THEN ""
    ELSE IF "onOff" \notin DOMAIN previousData THEN "MissingTaggedData"
    ELSE IF ~isInverterOff(previousData["onOff"]) THEN "InverterIsNotOff"
    ELSE ""

Raised(status, data) == [status |-> status, data |-> data, command |-> 0, payload |-> <<>>]

\* set() up to its __sendQuery: status "send" with the command and payload
\* to send, or the exception raised; data is the dictionary as set() left it.
Prepare(tag, value, previousData) ==
    IF tag \notin DOMAIN SERMATEC_PARAMETERS
    THEN Raised("ParameterNotFound", previousData)
    ELSE
      LET parameterInfo  == SERMATEC_PARAMETERS[tag]
          convertedValue == fromFriendly(parameterInfo.converter, value)
          stored         == Store(previousData, tag,
                                  ToBytes(convertedValue.n, parameterInfo.byteLength))
          built          == IF parameterInfo.command = CMD_SET_PARAMS
                            THEN build66Payload(stored) ELSE build64Payload(stored)
      IN  IF convertedValue.k = "str" THEN Raised("TypeError", previousData)
          ELSE IF ~validate(parameterInfo.validator, convertedValue)
          THEN Raised("ValueError", previousData)
          ELSE IF OffCheck(parameterInfo, stored) # ""
          THEN Raised(OffCheck(parameterInfo, stored), stored)
          ELSE IF parameterInfo.command \notin {CMD_SET_PARAMS, CMD_SET_ONOFF}
          THEN Raised("CommandNotFoundInProtocol", stored)
          ELSE IF ~built.ok THEN Raised("MissingTaggedData", stored)
          ELSE [status |-> "send", data |-> stored,
                command |-> parameterInfo.command, payload |-> built.payload]

\* The body of set(tag, value, previousData); dflt = TRUE is the call without
\* previousData, which works on the dictionary bound to the default argument.
Setting(tag, value, dflt) ==
    LET previousData == IF dflt THEN defaultSnap ELSE snapshot
        p == Prepare(tag, value, previousData)
    IN  /\ StartCall("set", NO_VERSION, 0, tag, value, dflt, previousData)
        /\ IF dflt
           THEN defaultSnap' = p.data /\ UNCHANGED snapshot
           ELSE snapshot' = p.data /\ UNCHANGED defaultSnap
        /\ IF p.status = "send"
           THEN EnterQuery(p.command, p.payload)
           ELSE Return(p.status)
        /\ UNCHANGED <<connected, pcuVersion, sock, eof, leaked>>

\* set(tag, value, previousData), made by a caller the model does not follow.
Set(tag, value, dflt) == Setting(tag, value, dflt) /\ UNCHANGED applied

\* The session: connecting, querying, disconnecting, with set() called on
\* the caller's snapshot.
Next ==
    \/ \E version \in ConnectArgs, tcp \in {"ok", "fail"} : Connect(version, tcp)
    \/ Disconnect
    \/ \E command \in QueryCmds : GetCustom(command)
    \/ \E tag \in SessionSetTags, value \in SessionSetValues : Set(tag, value, FALSE)
    \/ \E o \in {"ok", "timeout", "reset"} : WriteStep(o)
    \/ \E o \in {"data", "timeout", "reset"}, frame \in PeerFrames \cup {EOF_READ},
          parsed \in ParsedVersions : ReadStep(o, frame, parsed)

Spec == Init /\ [][Next]_vars

\* The parameter writes: set() with every argument of the model on the
\* caller's snapshot, and the switch parameters without a snapshot, on a
\* session connected with a pinned version.
NextSet ==
    \/ \E tcp \in {"ok", "fail"} : Connect(0, tcp)
    \/ Disconnect
    \/ \E tag \in SetTags, value \in SetValues : Set(tag, value, FALSE)
    \/ \E tag \in SessionSetTags, value \in SessionSetValues : Set(tag, value, TRUE)
    \/ \E o \in {"ok", "timeout", "reset"} : WriteStep(o)

SpecSet == InitSet /\ [][NextSet]_vars

\* ------------------------------------------------------------------------
\* The functions of the parser and the converters applied on their own: the
\* initial state holds the arguments, the action applies the function.
\* ------------------------------------------------------------------------
CodecInputs(schemas, tables) ==
    {[fn |-> "generateRequest", done |-> FALSE, command |-> c, payload |-> p, result |-> <<>>] :
        c \in CodecCommands, p \in CodecPayloads}
      \cup {[fn |-> "checkResponseIntegrity", done |-> FALSE, responses |-> r, command |-> c,
              result |-> ""] : r \in CodecResponseLists, c \in CodecCommands}
      \cup {[fn |-> "getCommandByVersion", done |-> FALSE, osim |-> o, command |-> c,
              version |-> v, result |-> [status |-> "", cmd |-> NoCommand]] :
                o \in schemas, c \in {CMD_SYSINFO, CMD_BATTERY, CMD_GRIDPV},
                v \in 0..(MaxSchemaVersion + 1)}
      \cup {[fn |-> "MapConverter", done |-> FALSE, map |-> t, result |-> DummyConverter] :
                t \in tables}

GenerateRequest ==
    /\ applied.fn = "generateRequest" /\ ~applied.done
    /\ applied' = [applied EXCEPT !.done = TRUE,
                                   !.result = generateRequest(applied.command, applied.payload)]
    /\ UNCHANGED session

CheckResponseIntegrity ==
    /\ applied.fn = "checkResponseIntegrity" /\ ~applied.done
    /\ applied' = [applied EXCEPT !.done = TRUE,
                                   !.result = checkResponseIntegrity(applied.responses,
                                                                     applied.command)]
    /\ UNCHANGED session

GetCommandByVersion ==
    /\ applied.fn = "getCommandByVersion" /\ ~applied.done
    /\ applied' = [applied EXCEPT !.done = TRUE,
                                   !.result = getCommandByVersion(applied.osim, applied.command,
                                                                  applied.version)]
    /\ UNCHANGED session

NewMapConverter ==
    /\ applied.fn = "MapConverter" /\ ~applied.done
    /\ applied' = [applied EXCEPT !.done = TRUE,
                                   !.result = MapConverter(applied.map, 0, StrV("unknown"))]
    /\ UNCHANGED session

InitCodec == Constructed({EmptySnap}) /\ applied \in CodecInputs(Schemas(SchemaVersions), MapTables(MaxMapLen))

NextCodec ==
    \/ GenerateRequest
    \/ CheckResponseIntegrity
    \/ GetCommandByVersion
    \/ NewMapConverter

SpecCodec == InitCodec /\ [][NextCodec]_vars

\* ------------------------------------------------------------------------
\* The command-line entry point (__main__.py): one process running one
\* subcommand against one inverter.  applied holds the process: its
\* arguments, its position and, once it has ended, its exit status.
\* ------------------------------------------------------------------------
\* Exit status of the interpreter: the script ran to its end (or called
\* sys.exit()), or an exception left asyncio.run.
EXIT_OK == 0
EXIT_TRACEBACK == 1

\* The exceptions getFunc and customgetFunc catch around the query.
CliCaught ==
    {"CommandNotFoundInProtocol", "ProtocolFileMalformed", "ParsingNotImplemented",
     "NoDataReceived", "FailedResponseIntegrityCheck"}

\* customgetFunc's test of its command argument.
CliCommandAccepted(command) == command \in 0..254

CliProcess(sub, command, raw) ==
    [fn |-> "main", done |-> FALSE, sub |-> sub, command |-> command, raw |-> raw,
     pc |-> "connect", connectFailed |-> FALSE, exit |-> -1]

CliInputs ==
    {CliProcess("get", c, FALSE) : c \in QueryCmds}
      \cup {CliProcess("list", 0, FALSE)}
      \cup {CliProcess("customget", c, r) : c \in QueryCmds \cup {255}, r \in BOOLEAN}

CliExited(status) == applied' = [applied EXCEPT !.pc = "exited", !.done = TRUE, !.exit = status]

\* customgetFunc returns before it contacts the inverter.
CliReject ==
    /\ applied.fn = "main" /\ applied.pc = "connect" /\ inv.op = "init"
    /\ applied.sub = "customget" /\ ~CliCommandAccepted(applied.command)
    /\ CliExited(EXIT_OK)
    /\ UNCHANGED session

\* await smc.connect()
CliConnect(tcp) ==
    /\ applied.fn = "main" /\ applied.pc = "connect" /\ inv.op = "init"
    /\ applied.sub = "customget" => CliCommandAccepted(applied.command)
    /\ Connect(NO_VERSION, tcp)

\* if await smc.connect(): ... else: print("Can't connect."); return
CliConnected ==
    /\ applied.fn = "main" /\ applied.pc = "connect" /\ inv.op = "connect" /\ ~running
    /\ UNCHANGED session
    /\ IF ret.status = "true"
       THEN applied' = [applied EXCEPT !.pc = IF applied.sub = "list" THEN "disconnect" ELSE "query"]
       ELSE IF ret.status = "false"
       THEN applied' = [applied EXCEPT !.pc = "exited", !.done = TRUE, !.exit = EXIT_OK,
                                       !.connectFailed = TRUE]
       ELSE CliExited(EXIT_TRACEBACK)

\* await smc.get(command) / smc.getCustom(parsedCmd) / smc.getCustomRaw(parsedCmd)
CliQuery ==
    /\ applied.fn = "main" /\ applied.pc = "query" /\ inv.op = "connect"
    /\ GetCustom(applied.command)

\* The query is over: a caught exception is reported and the function goes
\* on, any other leaves the process; the raw reply is a list, which has no hex().
CliQueried ==
    /\ applied.fn = "main" /\ applied.pc = "query" /\ inv.op = "getCustom" /\ ~running
    /\ UNCHANGED session
    /\ IF applied.raw
       THEN CliExited(EXIT_TRACEBACK)
       ELSE IF ret.status = "ok" \/ ret.status \in CliCaught
       THEN applied' = [applied EXCEPT !.pc = "disconnect"]
       ELSE CliExited(EXIT_TRACEBACK)

\* await smc.disconnect()
CliDisconnect ==
    /\ applied.fn = "main" /\ applied.pc = "disconnect" /\ inv.op # "disconnect"
    /\ Disconnect

\* The function returns, asyncio.run returns, the script ends.
CliExit ==
    /\ applied.fn = "main" /\ applied.pc = "disconnect" /\ inv.op = "disconnect"
    /\ CliExited(EXIT_OK)
    /\ UNCHANGED session

InitCli == Constructed({EmptySnap}) /\ applied \in CliInputs

NextCli ==
    \/ CliReject
    \/ \E tcp \in {"ok", "fail"} : CliConnect(tcp)
    \/ CliConnected
    \/ CliQuery
    \/ CliQueried
    \/ CliDisconnect
    \/ CliExit
    \/ \E o \in {"ok", "timeout", "reset"} : WriteStep(o)
    \/ \E o \in {"data", "timeout", "reset"}, frame \in PeerFrames \cup {EOF_READ},
          parsed \in ParsedVersions : ReadStep(o, frame, parsed)

SpecCli == InitCli /\ [][NextCli]_vars

\* ------------------------------------------------------------------------
\* The callers of connect() in the integration: async_setup_entry
\* (__init__.py), which lets connect discover the version, and
\* SermatecCoordinator._async_update_data (coordinator.py), which pins it.
\* Both run "retries = 3; while not await connect(...) and retries > 0:
\* sleep(2); retries -= 1".  applied holds the caller: the version it hands
\* to connect, its retries left, the connect calls made, and the host, given
\* by the way it answers its first, second, ... TCP connection attempt.
\* ------------------------------------------------------------------------
CALLER_RETRIES == 3

\* Variant: the loop gives up after a single retry.
RetryAgainOnce(returned, retries) == ~returned /\ retries > 2

\* The condition of the while loop.
RetryAgain(returned, retries) == ~returned /\ retries > 0

HostScripts == [1..(CALLER_RETRIES + 1) -> {"ok", "fail"}]

Caller(who, version, host) ==
    [fn |-> "caller", done |-> FALSE, who |-> who, version |-> version, host |-> host,
     retries |-> CALLER_RETRIES, calls |-> 0, opens |-> 0, pc |-> "loop", raised |-> ""]

CallerInputs ==
    {Caller("async_setup_entry", NO_VERSION, h) : h \in HostScripts}
      \cup {Caller("_async_update_data", v, h) : v \in Versions, h \in HostScripts}

\* await smc_api.connect(...): connect opens a TCP connection unless the
\* session is connected; the host answers its next attempt.
CallerConnect ==
    /\ applied.fn = "caller" /\ applied.pc = "loop"
    /\ StartCall("connect", applied.version, 0, "", IntV(0), FALSE, EmptySnap)
    /\ Connecting(applied.version, applied.host[applied.opens + 1])
    /\ applied' = [applied EXCEPT !.pc = "await", !.calls = @ + 1,
                                   !.opens = IF isConnected THEN @ ELSE @ + 1]

\* connect has returned: the loop goes round again after sleep(2), or ends
\* and the caller looks at isConnected() (and, at setup, at pcuVersion).
CallerReturned ==
    /\ applied.fn = "caller" /\ applied.pc = "await" /\ ~running
    /\ UNCHANGED session
    /\ IF RetryAgain(ret.status = "true", applied.retries)
       THEN applied' = [applied EXCEPT !.pc = "loop", !.retries = @ - 1]
       ELSE applied' = [applied EXCEPT
                          !.pc = "ended", !.done = TRUE,
                          !.raised = IF applied.who = "async_setup_entry"
                                     THEN (IF ~isConnected \/ pcuVersion = 0
                                           THEN "ConfigEntryNotReady" ELSE "")
                                     ELSE (IF ~isConnected THEN "UpdateFailed" ELSE "")]

InitCaller == Constructed({EmptySnap}) /\ applied \in CallerInputs

NextCaller ==
    \/ CallerConnect
    \/ CallerReturned
    \/ \E o \in {"ok", "timeout", "reset"} : WriteStep(o)
    \/ \E o \in {"data", "timeout", "reset"}, frame \in PeerFrames \cup {EOF_READ},
          parsed \in ParsedVersions : ReadStep(o, frame, parsed)

SpecCaller == InitCaller /\ [][NextCaller]_vars

\* Every await of the loop is bounded (3 s to open, 5 s per write and read,
\* 2 s of sleep): the caller always takes its next step.
SpecCallerFair == SpecCaller /\ WF_vars(NextCaller)

\* ------------------------------------------------------------------------
\* Field codec (protocol_parser.py): parseReply and parseParameterReply over
\* the field list of one command definition.  A field descriptor is a record
\* with every key the decoders look at; a key the JSON object lacks is
\* repeat = 0, tag = "", bitPosition = fromBit = endBit = -1, unitValue =
\* NoUnit.  Names are sequences of characters.
\* ------------------------------------------------------------------------
NoUnit == [has |-> FALSE, k |-> 1, d |-> 0]
\* float(field["unitValue"]) = k / 10^d, d being the number of digits
\* str() prints after the point (__getMultiplierDecimalPlaces).
UnitValue(k, d) == [has |-> TRUE, k |-> k, d |-> d]

FieldDescriptor(name, byteLen, type) ==
    [name |-> name, byteLen |-> byteLen, type |-> type, same |-> FALSE, repeat |-> 0,
     tag |-> "", bitPosition |-> -1, fromBit |-> -1, endBit |-> -1, unitValue |-> NoUnit]

\* Decoded values: int, float (n / 10^places), bool (n = 1 or 0) and str (s,
\* the bytes of the ASCII text).
NoValue == [k |-> "none", n |-> 0, places |-> 0, s |-> <<>>]
IntD(n) == [k |-> "int", n |-> n, places |-> 0, s |-> <<>>]
FloatD(n, places) == [k |-> "float", n |-> n, places |-> places, s |-> <<>>]
BoolD(b) == [k |-> "bool", n |-> IF b THEN 1 ELSE 0, places |-> 0, s |-> <<>>]
StrD(s) == [k |-> "str", n |-> 0, places |-> 0, s |-> s]

\* re.sub(r"[^A-Za-z0-9]", "_", name).lower(), character by character.
TagChars ==
    << <<"A", "a">>, <<"B", "b">>, <<"C", "c">>, <<"M", "m">>, <<"O", "o">>, <<"S", "s">>,
       <<"a", "a">>, <<"b", "b">>, <<"c", "c">>, <<"d", "d">>, <<"e", "e">>, <<"f", "f">>,
       <<"g", "g">>, <<"i", "i">>, <<"m", "m">>, <<"n", "n">>, <<"o", "o">>, <<"p", "p">>,
       <<"r", "r">>, <<"s", "s">>, <<"t", "t">>, <<"1", "1">>, <<"2", "2">> >>

TagChar(ch) ==
    IF \E i \in 1..Len(TagChars) : TagChars[i][1] = ch
    THEN TagChars[CHOOSE i \in 1..Len(TagChars) : TagChars[i][1] = ch][2]
    ELSE "_"

fieldTagOf(name) == [i \in 1..Len(name) |-> TagChar(name[i])]

\* int.from_bytes(data, byteorder = "big", signed = ...) of the bytes at hand.
RECURSIVE FromBytesUnsigned(_, _)
FromBytesUnsigned(data, n) ==
    IF n = 0 THEN 0 ELSE 256 * FromBytesUnsigned(data, n - 1) + data[n]

FromBytes(data, signed) ==
    LET u == FromBytesUnsigned(data, Len(data))
    IN  IF signed /\ Len(data) > 0 /\ u >= 2 ^ (8 * Len(data) - 1)
        THEN u - 2 ^ (8 * Len(data)) ELSE u

\* round(value * fieldMultiplier, __getMultiplierDecimalPlaces(fieldMultiplier)):
\* the default multiplier is the int 1, and round(int, 0) is an int.
Scaled(value, fieldMultiplier) ==
    IF ~fieldMultiplier.has THEN IntD(value)
    ELSE FloatD(value * fieldMultiplier.k, fieldMultiplier.d)

\* currentFieldData.split(b"\x00", 1)[0]
TrimmedString(data) ==
    IF \E i \in 1..Len(data) : data[i] = 0
    THEN Slice(data, 0, (CHOOSE i \in 1..Len(data) :
                            data[i] = 0 /\ \A j \in 1..(i - 1) : data[j] # 0) - 1)
    ELSE data

\* MapConverter.toFriendly / DummyConverter.toFriendly of a Python value.
toFriendly(converter, value) ==
    IF converter.kind = "dummy" THEN value
    ELSE LET hits == {i \in 1..Len(converter.map) : PyEq(IntV(converter.map[i][1]), value)}
         IN  IF hits = {} THEN converter.defFriendly
             ELSE converter.map[CHOOSE i \in hits : TRUE][2]

\* NAME_BASED_FIELD_PARSERS, as far as the names of the model go.
OPERATING_MODE_NAME == <<"O", "p", "e", "r", "a", "t", "i", "n", "g", " ", "m", "o", "d", "e">>
NAME_BASED_FIELD_PARSERS == << <<OPERATING_MODE_NAME, CONVERTER_OPERATING_MODE>> >>

NameBased(name) == {i \in 1..Len(NAME_BASED_FIELD_PARSERS) : NAME_BASED_FIELD_PARSERS[i][1] = name}

\* A decoded value as the key looked up in a converter's table.
AsKey(value) ==
    IF value.k \in {"int", "bool"} THEN IntV(value.n)
    ELSE IF value.k = "float" /\ value.n % (10 ^ value.places) = 0
    THEN IntV(value.n \div (10 ^ value.places))
    ELSE StrV("no key")

SupportedTypes == {"int", "uInt", "string", "bit", "bitRange", "hex", "preserve", "long"}

\* Variant: bit positions counted from 1.
BitValueOneBased(convertedBytes, fieldBitPosition) ==
    BoolD(Bit(convertedBytes, fieldBitPosition + 1) = 1)

\* bool(convertedBytes & (1 << fieldBitPosition))
BitValue(convertedBytes, fieldBitPosition) == BoolD(Bit(convertedBytes, fieldBitPosition) = 1)

\* (convertedBytes >> fieldFromBit) & ((1 << (fieldEndBit - fieldFromBit)) - 1)
BitRangeValue(convertedBytes, fieldFromBit, fieldEndBit) ==
    IntD((convertedBytes \div (2 ^ fieldFromBit)) % (2 ^ (fieldEndBit - fieldFromBit)))

\* Variant: every integer field read as unsigned.
SignedTypesNone == {}

\* The field types decoded with signed = True.
SignedTypes == {"int", "long"}

\* The value parseReply computes for one field from its bytes.
FieldValue(field, currentFieldData) ==
    LET fieldType == field.type
    IN  IF fieldType \in {"int", "uInt", "long"}
        THEN Scaled(FromBytes(currentFieldData, fieldType \in SignedTypes), field.unitValue)
        ELSE IF fieldType = "string" THEN StrD(TrimmedString(currentFieldData))
        ELSE IF fieldType = "bit"
        THEN BitValue(FromBytes(currentFieldData, FALSE), field.bitPosition)
        ELSE IF fieldType = "bitRange"
        THEN BitRangeValue(FromBytes(currentFieldData, FALSE), field.fromBit, field.endBit)
        ELSE IF fieldType = "hex" THEN IntD(FromBytes(currentFieldData, FALSE))
        ELSE NoValue

\* What parseReply raises on one field, "" when it goes through.
ReplyFieldRaises(field, reply, dryrun, replyPosition) ==
    LET currentFieldData == Slice(reply, replyPosition, replyPosition + field.byteLen)
    IN  IF field.byteLen < 1 THEN "ProtocolFileMalformed"
        ELSE IF field.type = "bit" /\ field.bitPosition < 0 THEN "ProtocolFileMalformed"
        ELSE IF field.type = "bitRange" /\ (field.fromBit < 0 \/ field.endBit < 0) THEN "KeyError"
        ELSE IF dryrun THEN ""
        ELSE IF field.type = "bitRange" /\ field.endBit < field.fromBit THEN "ValueError"
        ELSE IF field.type = "string"
                /\ \E i \in 1..Len(TrimmedString(currentFieldData)) :
                      TrimmedString(currentFieldData)[i] > 127
        THEN "UnicodeDecodeError"
        ELSE IF NameBased(field.name) # {} /\ FieldValue(field, currentFieldData) = NoValue
        THEN "KeyError"
        ELSE ""

\* newField of parseReply: the entry stored under the field's tag.
ReplyEntry(field, reply, dryrun, replyPosition) ==
    LET currentFieldData == Slice(reply, replyPosition, replyPosition + field.byteLen)
        value == FieldValue(field, currentFieldData)
    IN  [key |-> fieldTagOf(field.name),
         hasValue |-> ~dryrun /\ value # NoValue,
         value |-> IF dryrun \/ NameBased(field.name) # {} THEN NoValue ELSE value,
         friendly |-> IF dryrun \/ NameBased(field.name) = {} THEN IntV(0)
                      ELSE toFriendly(NAME_BASED_FIELD_PARSERS[CHOOSE i \in NameBased(field.name) : TRUE][2],
                                      AsKey(value))]

\* ignoreField of parseReply at the end of the loop body.
ReplyIgnored(field, dryrun) ==
    \/ ~dryrun /\ field.type \notin SupportedTypes
    \/ field.repeat # 0
    \/ field.type = "preserve"

\* Variant: a repeated field moves the cursor by a single element.
AdvanceSingle(field) == field.byteLen

\* fieldLength once the loop body is through: the repeat count multiplied in.
Advance(field) == IF field.repeat # 0 THEN field.byteLen * field.repeat ELSE field.byteLen

Parsed(status, log, data) == [status |-> status, log |-> log, data |-> data]

\* The loop of parseReply from field idx on.  log is the reply position every
\* round reports to the debug log, data the entries stored, in field order.
RECURSIVE parseReplyFrom(_, _, _, _, _, _)
parseReplyFrom(cmdFields, reply, dryrun, idx, replyPosition, prevReplyPosition) ==
    IF idx > Len(cmdFields) THEN Parsed("ok", <<>>, <<>>)
    ELSE
      LET field == cmdFields[idx]
          position == IF field.same THEN prevReplyPosition ELSE replyPosition
          raised == ReplyFieldRaises(field, reply, dryrun, position)
          rest == parseReplyFrom(cmdFields, reply, dryrun, idx + 1,
                                 position + Advance(field), position)
      IN  IF raised # "" THEN Parsed(raised, <<position>>, <<>>)
          ELSE IF rest.status # "ok" THEN Parsed(rest.status, <<position>> \o rest.log, <<>>)
          ELSE Parsed("ok", <<position>> \o rest.log,
                      (IF ReplyIgnored(field, dryrun) THEN <<>>
                       ELSE <<ReplyEntry(field, reply, dryrun, position)>>) \o rest.data)

parseReply(cmdFields, reply, dryrun) ==
    parseReplyFrom(cmdFields, reply, dryrun, 1, REPLY_OFFSET_DATA, 0)

\* Variant: the bit tagged onOff stored like any other field.
ParameterBytesAsRead(field, reply, replyPosition) ==
    Slice(reply, replyPosition, replyPosition + field.byteLen)

\* rawFieldData of parseParameterReply: the bytes of the field, or for the
\* bit tagged onOff the byte the power-state converter gives for it.
ParameterBytes(field, reply, replyPosition) ==
    LET rawFieldData == Slice(reply, replyPosition, replyPosition + field.byteLen)
        extractedBit == Bit(FromBytes(rawFieldData, FALSE), field.bitPosition) = 1
    IN  IF field.type = "bit" /\ field.tag = "onOff"
        THEN ToBytes(fromFriendly(CONVERTER_ON_OFF, BoolV(extractedBit)).n, 1)
        ELSE rawFieldData

ParameterIgnored(field) == field.repeat # 0 \/ field.type = "preserve" \/ field.tag = ""

\* The loop of parseParameterReply from field idx on.
RECURSIVE parseParameterReplyFrom(_, _, _, _, _)
parseParameterReplyFrom(cmdFields, reply, idx, replyPosition, prevReplyPosition) ==
    IF idx > Len(cmdFields) THEN Parsed("ok", <<>>, <<>>)
    ELSE
      LET field == cmdFields[idx]
          position == IF field.same THEN prevReplyPosition ELSE replyPosition
          raised == IF field.byteLen < 1 \/ (field.type = "bit" /\ field.bitPosition < 0)
                    THEN "ProtocolFileMalformed" ELSE ""
          rest == parseParameterReplyFrom(cmdFields, reply, idx + 1,
                                          position + Advance(field), position)
      IN  IF raised # "" THEN Parsed(raised, <<position>>, <<>>)
          ELSE IF rest.status # "ok" THEN Parsed(rest.status, <<position>> \o rest.log, <<>>)
          ELSE Parsed("ok", <<position>> \o rest.log,
                      (IF ParameterIgnored(field) THEN <<>>
                       ELSE << [key |-> field.tag,
                                bytes |-> ParameterBytes(field, reply, position)] >>) \o rest.data)

parseParameterReply(cmdFields, reply) ==
    parseParameterReplyFrom(cmdFields, reply, 1, REPLY_OFFSET_DATA, 0)

\* Inputs of the field codec.  The field lists mix the kinds of field the
\* cursor treats differently; the single-field definitions cover the value
\* decoders bit by bit.
FieldKinds ==
    {[FieldDescriptor(<<"S", "o", "C">>, 2, "uInt") EXCEPT !.tag = "soc"],
     [FieldDescriptor(<<"a", "1">>, 1, "uInt") EXCEPT !.same = TRUE],
     FieldDescriptor(<<"p">>, 2, "preserve"),
     [FieldDescriptor(<<"r">>, 2, "uInt") EXCEPT !.repeat = 3],
     [FieldDescriptor(<<"o", "n">>, 1, "bit") EXCEPT !.bitPosition = 0, !.tag = "onOff"],
     [FieldDescriptor(<<"b", "1">>, 1, "bit") EXCEPT !.bitPosition = 1, !.same = TRUE],
     FieldDescriptor(<<"f">>, 2, "float"),
     FieldDescriptor(<<"e">>, 0, "uInt")}

\* The field lists of up to `longest` fields.
FieldLists(longest) == UNION {[1..n -> FieldKinds] : n \in 0..longest}

ValueKinds ==
    {[FieldDescriptor(<<"b">>, len, "bit") EXCEPT !.bitPosition = pos] :
        len \in {1, 2}, pos \in 0..7}
      \cup {[FieldDescriptor(<<"b">>, 2, "bit") EXCEPT !.bitPosition = pos] : pos \in 8..15}
      \cup {[FieldDescriptor(<<"r">>, 1, "bitRange") EXCEPT !.fromBit = from, !.endBit = end] :
              from \in 0..8, end \in 0..8}
      \cup {[FieldDescriptor(<<"i">>, len, type) EXCEPT !.unitValue = unit] :
              len \in {1, 2}, type \in {"int", "uInt", "long"},
              unit \in {NoUnit, UnitValue(1, 1), UnitValue(10, 1), UnitValue(25, 2)}}
      \cup {FieldDescriptor(<<"t">>, 2, "hex"), FieldDescriptor(<<"s">>, 2, "string"),
            FieldDescriptor(OPERATING_MODE_NAME, 2, "uInt")}

ValueBytes == {0, 1, 4, 10, 60, 128, 246, 255}
ValuePayloads == {<<a>> : a \in ValueBytes} \cup {<<a, b>> : a, b \in ValueBytes}

\* Replies the field lists are decoded from: a payload of eight different
\* bytes, and a payload shorter than most field lists.
ListPayloads == {<<255, 246, 0, 10, 60, 1, 2, 128>>, <<0, 10>>}

ParseCall(fn, cmdFields, reply, dryrun) ==
    [fn |-> fn, done |-> FALSE, fields |-> cmdFields, reply |-> reply, dryrun |-> dryrun,
     result |-> Parsed("", <<>>, <<>>)]

ParseInputs(longest) ==
    {ParseCall("parseReply", l, Response(CMD_RUNNING, p), FALSE) :
        l \in FieldLists(longest), p \in ListPayloads}
      \cup {ParseCall("parseReply", l, <<>>, TRUE) : l \in FieldLists(longest)}
      \cup {ParseCall("parseParameterReply", l, Response(CMD_RUNNING, p), FALSE) :
              l \in FieldLists(longest), p \in ListPayloads}
      \cup {ParseCall("parseReply", <<f>>, Response(CMD_RUNNING, p), FALSE) :
              f \in ValueKinds, p \in ValuePayloads}

ParseReply ==
    /\ applied.fn = "parseReply" /\ ~applied.done
    /\ applied' = [applied EXCEPT !.done = TRUE,
                                   !.result = parseReply(applied.fields, applied.reply,
                                                         applied.dryrun)]
    /\ UNCHANGED session

ParseParameterReply ==
    /\ applied.fn = "parseParameterReply" /\ ~applied.done
    /\ applied' = [applied EXCEPT !.done = TRUE,
                                   !.result = parseParameterReply(applied.fields, applied.reply)]
    /\ UNCHANGED session

InitParse == Constructed({EmptySnap}) /\ applied \in ParseInputs(MaxFields)

NextParse ==
    \/ ParseReply
    \/ ParseParameterReply

SpecParse == InitParse /\ [][NextParse]_vars

\* ------------------------------------------------------------------------
\* The converters of protocol_parser.py applied on their own: a value is
\* taken through one converter in one direction and back through the other.
\* ------------------------------------------------------------------------
CONVERTER_BATTERY_STATUS ==
    MapConverter(<< <<17, StrV("charging")>>, <<34, StrV("discharging")>>,
                    <<51, StrV("stand-by")>> >>, 0, StrV("unknown"))

CONVERTER_SIMPLE_BINARY ==
    MapConverter(<< <<1, BoolV(TRUE)>>, <<0, BoolV(FALSE)>> >>, 1, BoolV(TRUE))

CONVERTER_INVERTED_BINARY ==
    MapConverter(<< <<1, BoolV(FALSE)>>, <<0, BoolV(TRUE)>> >>, 1, BoolV(TRUE))

CONVERTER_MODEL_CODE ==
    MapConverter(<< <<1, StrV("10 kW")>>, <<2, StrV("5 kW")>>, <<3, StrV("6 kW")>>,
                    <<5, StrV("3 kW")>> >>, 0, StrV("unknown"))

CONVERTER_BATTERY_MANUFACTURER ==
    MapConverter(<< <<1, StrV("No battery")>>,
                    <<2, StrV("PylonTech High Voltage Battery")>>,
                    <<3, StrV("PylonTech Low Voltage Battery")>>,
                    <<4, StrV("BYD")>>, <<5, StrV("Chaowei")>>, <<6, StrV("HDXN")>>,
                    <<7, StrV("YWLN")>>, <<9, StrV("XPGY")>>, <<10, StrV("WOTAI")>>,
                    <<11, StrV("RuiPu")>>, <<12, StrV("Cairi High Voltage")>>,
                    <<13, StrV("Cairi Low Voltage")>>, <<14, StrV("Dyness High Voltage")>>,
                    <<15, StrV("Dyness Low Voltage")>>, <<16, StrV("DLG Low Voltage")>>,
                    <<17, StrV("Wotai Low Voltage")>>, <<18, StrV("SHDL")>>,
                    <<19, StrV("GuangYu")>>, <<20, StrV("FeiBo")>>, <<21, StrV("NJSG")>>,
                    <<22, StrV("BYD High Voltage")>>, <<23, StrV("BYD Low Voltage")>>,
                    <<24, StrV("METERBOOST")>>, <<25, StrV("AOBO")>>,
                    <<26, StrV("DLG High Voltage")>>, <<27, StrV("Soluna Low Voltage")>>,
                    <<28, StrV("Soluna 3K")>> >>, 0, StrV("unknown"))

CONVERTER_BATTERY_TYPE ==
    MapConverter(<< <<1, StrV("Lithium battery")>>, <<2, StrV("Lead-acid battery")>>,
                    <<3, StrV("Flow battery")>> >>, 0, StrV("unknown"))

CONVERTER_METER_PROTOCOL ==
    MapConverter(<< <<1, StrV("Not installed")>>, <<2, StrV("Acrel Three-phase meter")>>,
                    <<3, StrV("Acrel Single-phase meter")>>,
                    <<4, StrV("Eastron Three-phase meter")>>,
                    <<5, StrV("Eastron Single-phase meter")>> >>, 0, StrV("unknown"))

CONVERTER_AC_OP_STATUS ==
    MapConverter(<< <<0, StrV("not running")>>, <<1, StrV("self-check")>>,
                    <<2, StrV("standby")>>, <<3, StrV("on-grid")>>, <<4, StrV("off-grid")>>,
                    <<5, StrV("backup mode")>> >>, 0, StrV("unknown"))

CONVERTER_AC_OP_MODE ==
    MapConverter(<< <<1, StrV("MPPT mode")>>, <<2, StrV("Constant current mode")>>,
                    <<3, StrV("PV constant voltage mode")>>,
                    <<4, StrV("AC rectification mode")>>,
                    <<5, StrV("Secondary constant current mode")>>,
                    <<6, StrV("Constant DC power mode")>>,
                    <<7, StrV("Constant AC power mode")>>,
                    <<0, StrV("unknown mode")>> >>, 0, StrV("unknown mode"))

\* The MapConverter objects the parser class creates, in the order of the source.
Converters ==
    << CONVERTER_BATTERY_STATUS, CONVERTER_OPERATING_MODE, CONVERTER_EE_BINARY,
       CONVERTER_SIMPLE_BINARY, CONVERTER_INVERTED_BINARY, CONVERTER_ON_OFF,
       CONVERTER_MODEL_CODE, CONVERTER_BATTERY_MANUFACTURER, CONVERTER_BATTERY_TYPE,
       CONVERTER_METER_PROTOCOL, CONVERTER_AC_OP_STATUS, CONVERTER_AC_OP_MODE >>

\* Raw codes and friendly values handed to the converters: every entry of
\* every table, the defaults, and values of no table.
RawCodes == {IntV(n) : n \in (0..MaxRawCode) \cup {34, 51, 85, 170, 238, 60928}}
FriendlyInputs ==
    UNION {{Converters[c].map[i][2] : i \in 1..Len(Converters[c].map)} : c \in 1..Len(Converters)}
      \cup {StrV("unknown"), StrV("unknown mode"), StrV("other"), IntV(0), IntV(1), IntV(2)}

ConvertCall(fn, c, value) ==
    [fn |-> fn, done |-> FALSE, converter |-> c, value |-> value, pc |-> "first",
     there |-> IntV(0), back |-> IntV(0)]
ConvertInputs ==
    {ConvertCall("toFriendly", c, v) : c \in 1..Len(Converters), v \in RawCodes}
      \cup {ConvertCall("fromFriendly", c, v) : c \in 1..Len(Converters), v \in FriendlyInputs}

\* converter.toFriendly(value), or converter.toFriendly(converter.fromFriendly(value)).
ToFriendly ==
    /\ \/ applied.fn = "toFriendly" /\ applied.pc = "first"
       \/ applied.fn = "fromFriendly" /\ applied.pc = "second"
    /\ applied' =
          IF applied.pc = "first"
          THEN [applied EXCEPT !.pc = "second",
                               !.there = toFriendly(Converters[applied.converter], applied.value)]
          ELSE [applied EXCEPT !.pc = "ended", !.done = TRUE,
                               !.back = toFriendly(Converters[applied.converter], applied.there)]
    /\ UNCHANGED session

\* converter.fromFriendly(value), or converter.fromFriendly(converter.toFriendly(value)).
FromFriendly ==
    /\ \/ applied.fn = "fromFriendly" /\ applied.pc = "first"
       \/ applied.fn = "toFriendly" /\ applied.pc = "second"
    /\ applied' =
          IF applied.pc = "first"
          THEN [applied EXCEPT !.pc = "second",
                               !.there = fromFriendly(Converters[applied.converter], applied.value)]
          ELSE [applied EXCEPT !.pc = "ended", !.done = TRUE,
                               !.back = fromFriendly(Converters[applied.converter], applied.there)]
    /\ UNCHANGED session

InitConvert == Constructed({EmptySnap}) /\ applied \in ConvertInputs

NextConvert ==
    \/ ToFriendly
    \/ FromFriendly

SpecConvert == InitConvert /\ [][NextConvert]_vars

\* ------------------------------------------------------------------------
\* Sermatec.getParameterData on a session connected with a pinned version.
\* applied holds the call: the field lists the protocol file gives for the
\* response codes, the commands queried so far, the (response code, frame)
\* pairs handed to parseParameterReply so far, and the dictionary built.
\* ------------------------------------------------------------------------
ALL_PARAMETER_QUERY_COMMANDS == <<CMD_RUNNING, CMD_WPARAMS>>

\* Field lists of the three response codes: the onOff bit at the start or
\* behind another field of 0x0C, a tag that 0x0C and 0x95 both carry, a
\* reserved field, a field without a tag.
SnapOnOff(pos) ==
    [FieldDescriptor(<<"o", "n">>, 1, "bit") EXCEPT !.bitPosition = pos, !.tag = "onOff"]
SnapField(tag, byteLen) == [FieldDescriptor(<<"a">>, byteLen, "uInt") EXCEPT !.tag = tag]
SnapSchemas ==
    {[c \in {CMD_RUNNING, CMD_WPARAMS, CMD_WPARAMS2} |->
        IF c = CMD_RUNNING THEN <<SnapOnOff(0), SnapField("soc", 1)>>
        ELSE IF c = CMD_WPARAMS THEN <<SnapField("soc", 2)>>
        ELSE <<FieldDescriptor(<<"p">>, 1, "preserve"), SnapField("antiBackflow", 1)>>],
     [c \in {CMD_RUNNING, CMD_WPARAMS, CMD_WPARAMS2} |->
        IF c = CMD_RUNNING THEN <<SnapField("", 1), SnapOnOff(1)>>
        ELSE IF c = CMD_WPARAMS THEN <<SnapField("antiBackflow", 2)>>
        ELSE <<SnapField("antiBackflow", 1), SnapField("soc", 1)>>]}

\* The frames the inverter answers with: payloads of two bytes, and one
\* without a payload.
SnapPayloads == {<<a, b>> : a \in 0..MaxSnapByte, b \in {5, 6}} \cup {<<>>}
SnapFrames ==
    {Response(c, p) : c \in {CMD_RUNNING, CMD_WPARAMS, CMD_WPARAMS2}, p \in SnapPayloads}

SnapshotCall(schema) ==
    [fn |-> "getParameterData", done |-> FALSE, schema |-> schema, pc |-> "connect",
     queried |-> <<>>, parsed |-> <<>>, parsedResponse |-> EmptySnap, raised |-> ""]
SnapshotInputs == {SnapshotCall(s) : s \in SnapSchemas}

\* dict.update(parsed): the entries stored one after the other.
RECURSIVE Updated(_, _, _)
Updated(dict, data, i) ==
    IF i > Len(data) THEN dict
    ELSE Updated(Store(dict, data[i].key, data[i].bytes), data, i + 1)

\* The inner loop of getParameterData from pair i on: each frame is parsed
\* and merged into parsedResponse; an exception of the parser ends the call.
RECURSIVE MergedFrom(_, _, _, _)
MergedFrom(dict, pairs, schema, i) ==
    IF i > Len(pairs) THEN [status |-> "ok", data |-> dict]
    ELSE LET parsed == parseParameterReply(schema[pairs[i][1]], pairs[i][2])
         IN  IF parsed.status # "ok" THEN [status |-> parsed.status, data |-> dict]
             ELSE MergedFrom(Updated(dict, parsed.data, 1), pairs, schema, i + 1)

\* The caller connects first: connect(version) with the version pinned.
SnapConnect(tcp) ==
    /\ applied.fn = "getParameterData" /\ applied.pc = "connect"
    /\ StartCall("connect", MaxVersion, 0, "", IntV(0), FALSE, EmptySnap)
    /\ Connecting(MaxVersion, tcp)
    /\ applied' = [applied EXCEPT !.pc = "query"]

\* responses = await self.__sendQuery(commandCode), for the next command
\* of ALL_PARAMETER_QUERY_COMMANDS; the counters of the call restart with
\* each query.
SnapQuery ==
    /\ applied.fn = "getParameterData" /\ applied.pc = "query"
    /\ LET commandCode == ALL_PARAMETER_QUERY_COMMANDS[Len(applied.queried) + 1]
       IN  /\ StartCall("getParameterData", NO_VERSION, commandCode, "", IntV(0), FALSE, EmptySnap)
           /\ EnterQuery(commandCode, <<>>)
           /\ applied' = [applied EXCEPT !.pc = "await", !.queried = Append(@, commandCode)]
    /\ UNCHANGED <<connected, pcuVersion, sock, eof, leaked, snapshot, defaultSnap>>

\* __sendQuery is over: its exception leaves getParameterData, its frames
\* are parsed and merged; after the last command the dictionary is returned.
SnapParse ==
    /\ applied.fn = "getParameterData" /\ applied.pc = "await" /\ ~running
    /\ UNCHANGED session
    /\ IF ret.status # "ok"
       THEN applied' = [applied EXCEPT !.pc = "ended", !.done = TRUE, !.raised = ret.status]
       ELSE LET pairs == ParsedPairs(ret.frames, inv.cmd)
                merged == MergedFrom(applied.parsedResponse, pairs, applied.schema, 1)
            IN  IF merged.status # "ok"
                THEN applied' = [applied EXCEPT !.pc = "ended", !.done = TRUE,
                                                !.parsed = @ \o pairs,
                                                !.raised = merged.status]
                ELSE applied' = [applied EXCEPT
                                   !.pc = IF Len(applied.queried) = Len(ALL_PARAMETER_QUERY_COMMANDS)
                                          THEN "ended" ELSE "query",
                                   !.done = Len(applied.queried) = Len(ALL_PARAMETER_QUERY_COMMANDS),
                                   !.parsed = @ \o pairs,
                                   !.parsedResponse = merged.data]

InitSnapshot == Constructed({EmptySnap}) /\ applied \in SnapshotInputs

NextSnapshot ==
    \/ \E tcp \in {"ok", "fail"} : SnapConnect(tcp)
    \/ SnapQuery
    \/ SnapParse
    \/ \E o \in {"ok", "timeout", "reset"} : WriteStep(o)
    \/ \E o \in {"data", "timeout", "reset"}, frame \in SnapFrames \cup {EOF_READ} :
          Reading(o, frame, NoReply)

SpecSnapshot == InitSnapshot /\ [][NextSnapshot]_vars

\* ------------------------------------------------------------------------
\* A caller making set() calls on one snapshot it keeps, as the entities of
\* the integration do with the coordinator's data.  applied holds what the
\* caller knows of antiBackflow: the bytes read from the device, and the
\* bytes of each set("antiBackflow", ...) that got past the off test.
\* ------------------------------------------------------------------------
SharedTags == {"onOff", "antiBackflow", "soc", "operatingMode"}
SharedValues == {BoolV(TRUE), BoolV(FALSE), IntV(10), StrV("Peak-Valley")}

\* set(tag, value, previousData) did not raise before its shouldBeOff test,
\* and the test let it go on.
PassedOffTest(tag, value, previousData) ==
    /\ Prepare(tag, value, previousData).status \notin {"ParameterNotFound", "TypeError", "ValueError"}
    /\ OffCheck(SERMATEC_PARAMETERS[tag], Prepare(tag, value, previousData).data) = ""

SharedCaller(snap) ==
    [fn |-> "sets", done |-> FALSE,
     read |-> IF "antiBackflow" \in DOMAIN snap THEN {snap["antiBackflow"]} ELSE {},
     passed |-> {}]

\* await smc.connect(version)
SharedConnect(tcp) ==
    /\ applied.fn = "sets"
    /\ Connect(0, tcp)

\* await smc.set(tag, value, snapshot)
SharedSet(tag, value) ==
    /\ applied.fn = "sets"
    /\ Setting(tag, value, FALSE)
    /\ applied' = IF tag = "antiBackflow" /\ PassedOffTest(tag, value, snapshot)
                  THEN [applied EXCEPT !.passed = @ \cup {snapshot'["antiBackflow"]}]
                  ELSE applied

InitShared == Constructed(InitSnapshots) /\ applied = SharedCaller(snapshot)

NextShared ==
    \/ \E tcp \in {"ok", "fail"} : SharedConnect(tcp)
    \/ \E tag \in SharedTags, value \in SharedValues : SharedSet(tag, value)
    \/ \E o \in {"ok", "timeout", "reset"} : WriteStep(o)

SpecShared == InitShared /\ [][NextShared]_vars

\* ------------------------------------------------------------------------
\* SermatecCoordinator._async_update_data (coordinator.py) after the first
\* refresh: connect with the stored version, query every command of
\* getQueryCommands(), disconnect.  applied holds the coordinator: its
\* position in the cycle, the retries left, the index of the next command,
\* whether coordinator_data has an entry, whether the cycle found the
\* session connected when it began and after its connect loop, and the
\* exception that left the cycle.  The protocol file is taken to define
\* every response code, so that parseReply returns a map for every frame.
\* ------------------------------------------------------------------------
ALL_QUERY_COMMANDS == <<CMD_SYSINFO, CMD_BATTERY, CMD_GRIDPV, CMD_RUNNING, CMD_WPARAMS, CMD_BMS>>
ALL_RESPONSE_CODES ==
    <<CMD_SYSINFO, CMD_BATTERY, CMD_GRIDPV, CMD_RUNNING, CMD_WPARAMS, CMD_BMS, CMD_WPARAMS2>>

\* What one read can deliver during a cycle: a frame of any response code,
\* or a damaged one.
CycleFrames ==
    {Response(ALL_RESPONSE_CODES[i], <<>>) : i \in 1..Len(ALL_RESPONSE_CODES)}
      \cup {Damaged(Response(CMD_SYSINFO, <<>>))}

Cycle(version, number, startedConnected) ==
    [fn |-> "_async_update_data", done |-> FALSE, version |-> version, number |-> number,
     retries |-> CALLER_RETRIES, pc |-> "loop", cmd |-> 1, hasData |-> FALSE,
     startedConnected |-> startedConnected, didConnect |-> FALSE, raised |-> ""]

CycleInputs == {Cycle(v, 1, FALSE) : v \in Versions}

\* while not await self.smc_api.connect(version=self.pcuVersion) ...
CycleConnect(tcp) ==
    /\ applied.fn = "_async_update_data" /\ applied.pc = "loop"
    /\ StartCall("connect", applied.version, 0, "", IntV(0), FALSE, EmptySnap)
    /\ Connecting(applied.version, tcp)
    /\ applied' = [applied EXCEPT !.pc = "returned"]

\* ... and retries > 0: sleep(2), retries -= 1; after the loop the
\* isConnected() test, which raises UpdateFailed.
CycleReturned ==
    /\ applied.fn = "_async_update_data" /\ applied.pc = "returned" /\ ~running
    /\ UNCHANGED session
    /\ IF RetryAgain(ret.status = "true", applied.retries)
       THEN applied' = [applied EXCEPT !.pc = "loop", !.retries = @ - 1]
       ELSE IF ~isConnected
       THEN applied' = [applied EXCEPT !.pc = "ended", !.done = TRUE, !.raised = "UpdateFailed"]
       ELSE applied' = [applied EXCEPT !.pc = "query", !.didConnect = TRUE]

\* response = await self.smc_api.getCustom(cmd), for the next command.
CycleQuery ==
    /\ applied.fn = "_async_update_data" /\ applied.pc = "query"
    /\ StartCall("getCustom", NO_VERSION, ALL_QUERY_COMMANDS[applied.cmd], "", IntV(0),
                 FALSE, EmptySnap)
    /\ EnterQuery(ALL_QUERY_COMMANDS[applied.cmd], <<>>)
    /\ applied' = [applied EXCEPT !.pc = "await"]
    /\ UNCHANGED <<connected, pcuVersion, sock, eof, leaked, snapshot, defaultSnap>>

\* The position after the body of the for loop: the next command, or the
\* disconnect() after the loop.
CycleAfter(cmd) == IF cmd = Len(ALL_QUERY_COMMANDS) THEN "disconnect" ELSE "query"

\* The try statement around getCustom: the map is merged, the two
\* exceptions of the first clause are passed over, NotConnected and
\* ConnectionResetError lead to a reconnect after sleep(5); any other
\* exception leaves _async_update_data.
CycleAnswered ==
    /\ applied.fn = "_async_update_data" /\ applied.pc = "await" /\ ~running
    /\ UNCHANGED session
    /\ IF ret.status = "ok"
       THEN applied' = [applied EXCEPT !.pc = CycleAfter(applied.cmd),
                                       !.cmd = @ + 1, !.hasData = TRUE]
       ELSE IF ret.status \in {"NoDataReceived", "FailedResponseIntegrityCheck"}
       THEN applied' = [applied EXCEPT !.pc = CycleAfter(applied.cmd), !.cmd = @ + 1]
       ELSE IF ret.status \in {"NotConnected", "ConnectionResetError"}
       THEN applied' = [applied EXCEPT !.pc = "reconnect"]
       ELSE applied' = [applied EXCEPT !.pc = "ended", !.done = TRUE, !.raised = ret.status]

\* await self.smc_api.connect(version=self.pcuVersion) of the except clause.
CycleReconnect(tcp) ==
    /\ applied.fn = "_async_update_data" /\ applied.pc = "reconnect"
    /\ StartCall("connect", applied.version, 0, "", IntV(0), FALSE, EmptySnap)
    /\ Connecting(applied.version, tcp)
    /\ applied' = [applied EXCEPT !.pc = CycleAfter(applied.cmd), !.cmd = @ + 1]

\* await self.smc_api.disconnect(), then UpdateFailed for an empty
\* coordinator_data, or the return of the data.
CycleDisconnect ==
    /\ applied.fn = "_async_update_data" /\ applied.pc = "disconnect"
    /\ Disconnecting
    /\ applied' = [applied EXCEPT !.pc = "ended", !.done = TRUE,
                                   !.raised = IF applied.hasData THEN "" ELSE "UpdateFailed"]

\* update_interval later the coordinator runs the next cycle.
CycleAgain ==
    /\ applied.fn = "_async_update_data" /\ applied.pc = "ended"
    /\ applied.number < MaxCycles
    /\ applied' = Cycle(applied.version, applied.number + 1, isConnected)
    /\ UNCHANGED session

InitCycle == Constructed({EmptySnap}) /\ applied \in CycleInputs

NextCycle ==
    \/ \E tcp \in {"ok", "fail"} : CycleConnect(tcp)
    \/ CycleReturned
    \/ CycleQuery
    \/ CycleAnswered
    \/ \E tcp \in {"ok", "fail"} : CycleReconnect(tcp)
    \/ CycleDisconnect
    \/ CycleAgain
    \/ \E o \in {"ok", "timeout", "reset"} : WriteStep(o)
    \/ \E o \in {"data", "timeout", "reset"}, frame \in CycleFrames \cup {EOF_READ} :
          Reading(o, frame, NoReply)

SpecCycle == InitCycle /\ [][NextCycle]_vars

TypeOK ==
    /\ connected \in BOOLEAN
    /\ pcuVersion \in Versions
    /\ sock \in {"none", "open", "closed"}
    /\ eof \in BOOLEAN
    /\ leaked \in 0..(MaxLeaked + 1)
    /\ running \in BOOLEAN
    /\ q.pc \in {"idle", "write", "read"}
    /\ writes \in 0..QUERY_ATTEMPTS
    /\ attempts \in 0..QUERY_ATTEMPTS

\* ------------------------------------------------------------------------
\* Properties.
\* ------------------------------------------------------------------------
Retryable == {"SendTimeout", "RecvTimeout", "FailedResponseIntegrityCheck"}

\* An attempt of __sendQuery ends in this step.
AttemptEnds == attempts' = attempts + 1

\* Connections of this client that are open.
OpenConnections == leaked + (IF sock = "open" THEN 1 ELSE 0)

\* C1: one __sendQuery call makes at most 5 attempts; an attempt ending in a
\* write timeout, a read timeout or an integrity failure is followed by the
\* next attempt (same frame) while fewer than 5 were made; the first attempt
\* whose responses validate ends the call with exactly the frames read in
\* that attempt, one frame having been written per attempt and none after.
C1_Step ==
    /\ attempts' <= 5
    /\ (AttemptEnds /\ lastOutcome' \in Retryable /\ attempts' < 5)
          => (running' /\ q'.pc = "write" /\ q'.attempt = attempts' /\ q'.data = q.data
              /\ q'.cmd = q.cmd /\ q'.resp = <<>>)
    /\ (AttemptEnds /\ lastOutcome' = "Ok")
          => (/\ ~running' /\ q'.pc = "idle"
              /\ qres'.status = "ok"
              /\ Len(qres'.frames) = q.need
              /\ \A i \in 1..Len(q.resp) : qres'.frames[i] = q.resp[i]
              /\ checkResponseIntegrity(qres'.frames, q.cmd) = "True"
              /\ writes' = attempts')
    /\ (lastOutcome = "Ok") => (writes' <= writes \/ writes' = 0)

C1_AttemptLoop == [][C1_Step]_vars

C1_Witness ==
    /\ lastOutcome = "Ok" /\ attempts = 3 /\ writes = 3
    /\ Len(qres.frames) = 2

\* C2: when all 5 attempts ended in a write timeout, a read timeout or an
\* integrity failure, __sendQuery has raised CommunicationError and the
\* connected flag is still true.
C2_Exhausted ==
    (attempts = 5 /\ lastOutcome \in Retryable)
       => (/\ ~running /\ q.pc = "idle"
           /\ qres.status = "CommunicationError"
           /\ (inv.op # "connect" => ret.status = "CommunicationError")
           /\ connected)

C2_Witness ==
    /\ attempts = 5 /\ lastOutcome = "FailedResponseIntegrityCheck"
    /\ qres.status = "CommunicationError" /\ connected /\ inv.op = "getCustom"

\* C3: a connection reset during the write or a read of an attempt clears
\* the connected flag and makes __sendQuery raise ConnectionResetError at
\* once: the call is over, whatever the number of attempts used.
C3_ResetIsFatal ==
    (lastOutcome = "ConnectionResetError")
       => (/\ ~connected
           /\ ~running /\ q.pc = "idle"
           /\ qres.status = "ConnectionResetError"
           /\ (inv.op # "connect" => ret.status = "ConnectionResetError"))

C3_Witness ==
    /\ lastOutcome = "ConnectionResetError" /\ attempts = 2 /\ ~connected
    /\ inv.op = "getCustom" /\ ret.status = "ConnectionResetError"

\* C4: once the peer has closed the connection (a reset, or an orderly close
\* seen as an empty read) the session is Disconnected and no attempt of
\* __sendQuery is in progress.
C4_PeerCloseDowngrades ==
    (eof \/ sock = "closed") => (~connected /\ q.pc = "idle")

\* C5: __sendQuery entered on a session whose connected flag is false (from
\* getCustom, or from set once its payload is built) raises NotConnected,
\* and nothing is written: a frame is only ever handed to the transport in a
\* call that found the session connected, or in connect itself.
C5_NotConnected ==
    /\ (inv.op = "getCustom" /\ ~inv.preConnected)
          => (~running /\ ret.status = "NotConnected" /\ qres.status = "NotConnected"
              /\ writes = 0 /\ lastWritten = <<>> /\ attempts = 0)
    /\ (inv.op = "set" /\ ~inv.preConnected
          /\ Prepare(inv.tag, inv.value, inv.preSnap).status = "send")
          => (~running /\ ret.status = "NotConnected" /\ qres.status = "NotConnected"
              /\ writes = 0 /\ lastWritten = <<>> /\ attempts = 0)
    /\ (writes > 0 \/ q.pc # "idle") => (inv.preConnected \/ inv.op = "connect")

C5_Witness ==
    /\ inv.op = "set" /\ ~inv.preConnected /\ ret.status = "NotConnected" /\ writes = 0
    /\ sock = "closed"

\* C6: connect() without a pinned version, once the TCP connection has
\* opened, returns true with the session connected, whatever the outcome of
\* the discovery query; when the query failed the cached version is 0.
C6_DiscoveryNeverFatal ==
    (inv.op = "connect" /\ ~running /\ inv.version = NO_VERSION /\ ~inv.preConnected
        /\ ret.status # "false")
       => (/\ ret.status = "true"
           /\ connected
           /\ (qres.status # "ok" => pcuVersion = 0))

\* C7: connect(version = v) on a disconnected session writes no frame and
\* issues no query; when the TCP connection opens the cached version is v.
\* A query inside connect happens only without a pinned version.  When the
\* TCP open fails connect returns false and the session stays Disconnected.
C7_PinnedConnect ==
    /\ (inv.op = "connect" /\ inv.version # NO_VERSION /\ ~inv.preConnected)
          => (/\ ~running /\ q.pc = "idle"
              /\ writes = 0 /\ lastWritten = <<>> /\ attempts = 0 /\ qres.status = "none"
              /\ ret.status \in {"true", "false"}
              /\ (ret.status = "true" => (connected /\ sock = "open" /\ pcuVersion = inv.version)))
    /\ (inv.op = "connect" /\ (running \/ writes > 0 \/ qres.status # "none"))
          => (inv.version = NO_VERSION /\ ~inv.preConnected)
    /\ (inv.op = "connect" /\ ~running /\ ret.status = "false")
          => (~connected /\ sock # "open" /\ writes = 0)

C7_Witness ==
    /\ inv.op = "connect" /\ inv.version = 1 /\ ~inv.preConnected
    /\ ret.status = "true" /\ pcuVersion = 1 /\ writes = 0 /\ sock = "open"

\* C8: after disconnect() has returned no connection of the session is open
\* and isConnected() is false, whatever the state before; a disconnect()
\* that follows a disconnect() raises nothing and changes nothing.
C8_Step ==
    (~running /\ inv'.op = "disconnect")
       => (/\ ~running' /\ ret'.status = "ok"
           /\ ~connected'
           /\ sock' # "open" /\ leaked' = 0
           /\ (inv.op = "disconnect"
                 => UNCHANGED <<connected, pcuVersion, sock, eof, leaked, snapshot, defaultSnap>>))

C8_Disconnect == [][C8_Step]_vars

C8_Witness ==
    /\ inv.op = "disconnect" /\ inv.preConnected /\ ~running
    /\ ~connected /\ sock = "closed" /\ ret.status = "ok"

\* C9: at most one connection of the client is open at any time; connect()
\* on a connected session returns true and opens nothing; a connection is
\* opened only when no earlier one is still open.
C9_Step ==
    /\ OpenConnections' <= 1
    /\ (~running /\ inv'.op = "connect" /\ connected)
          => (ret'.status = "true" /\ ~running' /\ UNCHANGED <<connected, sock, leaked, eof>>)
    /\ (~running /\ inv'.op = "connect" /\ ~connected /\ connected')
          => (OpenConnections = 0 /\ OpenConnections' = 1)

C9_SingleConnection == [][C9_Step]_vars

C9_Witness ==
    /\ inv.op = "connect" /\ ~inv.preConnected /\ connected /\ sock = "open"
    /\ lastOutcome = "none" /\ pcuVersion = 1 /\ eof = FALSE /\ leaked = 0
    /\ running

\* C10: set() of a parameter whose descriptor has shouldBeOff (antiBackflow),
\* with a value its converter and validator accept, raises MissingTaggedData
\* when the snapshot has no onOff entry and InverterIsNotOff when the
\* snapshot's onOff bytes are not the single byte 0xAA (0x55 in particular);
\* in both cases nothing is written.  A frame of such a set() is written
\* only with a snapshot whose onOff is 0xAA.
AcceptedValue(tag, value) ==
    /\ tag \in DOMAIN SERMATEC_PARAMETERS
    /\ fromFriendly(SERMATEC_PARAMETERS[tag].converter, value).k # "str"
    /\ validate(SERMATEC_PARAMETERS[tag].validator,
                fromFriendly(SERMATEC_PARAMETERS[tag].converter, value))

NothingWritten == writes = 0 /\ lastWritten = <<>> /\ attempts = 0 /\ q.pc = "idle"

C10_OffPrecondition ==
    (inv.op = "set" /\ AcceptedValue(inv.tag, inv.value)
        /\ SERMATEC_PARAMETERS[inv.tag].shouldBeOff)
       => (/\ ("onOff" \notin DOMAIN inv.preSnap)
                => (~running /\ ret.status = "MissingTaggedData" /\ NothingWritten)
           /\ ("onOff" \in DOMAIN inv.preSnap /\ inv.preSnap["onOff"] # <<170>>)
                => (~running /\ ret.status = "InverterIsNotOff" /\ NothingWritten)
           /\ (running \/ writes > 0)
                => ("onOff" \in DOMAIN inv.preSnap /\ inv.preSnap["onOff"] = <<170>>))

C10_Witness ==
    /\ inv.op = "set" /\ inv.tag = "antiBackflow" /\ inv.value = BoolV(TRUE)
    /\ "onOff" \in DOMAIN inv.preSnap /\ inv.preSnap["onOff"] = <<85>>
    /\ ret.status = "InverterIsNotOff" /\ writes = 0 /\ connected

\* The payload bytes of a frame: what lies between the 7 header bytes and
\* the checksum byte.
FramePayload(frame) == Slice(frame, 7, Len(frame) - 2)

\* C11: set("onOff", v, snapshot) on a connected session never raises an
\* error of set itself (no MissingTaggedData, no InverterIsNotOff), whatever
\* the snapshot holds: every frame it writes is a 0x64 frame whose payload
\* is the single byte 0x55 for v = true and 0xAA for v = false, and the call
\* returns as soon as a write has succeeded, after one write when the first
\* one succeeds.
C11_OnOffNeedsNoPrecondition ==
    (inv.op = "set" /\ inv.tag = "onOff" /\ inv.value.k = "bool" /\ inv.preConnected)
       => (/\ ret.status \in {"none", "ok", "CommunicationError", "ConnectionResetError"}
           /\ running => (q.cmd = 100 /\ q.data[5] = 100
                           /\ FramePayload(q.data) = <<IF inv.value.n = 1 THEN 85 ELSE 170>>)
           /\ writes > 0 => (lastWritten[5] = 100
                             /\ FramePayload(lastWritten) = <<IF inv.value.n = 1 THEN 85 ELSE 170>>)
           /\ (~running /\ lastOutcome = "Ok") => (ret.status = "ok" /\ ret.frames = <<>>)
           /\ (~running /\ ret.status = "ok") => (lastOutcome = "Ok" /\ writes = attempts)
           /\ (~running /\ attempts = 1 /\ lastOutcome = "Ok") => writes = 1)

C11_Witness ==
    /\ inv.op = "set" /\ inv.tag = "onOff" /\ inv.value = BoolV(TRUE) /\ inv.preConnected
    /\ "onOff" \notin DOMAIN inv.preSnap
    /\ ret.status = "ok" /\ writes = 1 /\ lastWritten = <<254, 85, 100, 20, 100, 0, 1, 85, 228, 174>>

\* C12: a set() whose request is invalid is rejected before it has any
\* effect: an unknown tag raises ParameterNotFound, a value the converter
\* does not know or whose raw value fails the validator raises ValueError;
\* the dictionary handed in is as it was and nothing is written.
C12_InvalidRejected ==
    (inv.op = "set" /\ ~AcceptedValue(inv.tag, inv.value))
       => (/\ ~running /\ NothingWritten
           /\ ret.status = (IF inv.tag \notin DOMAIN SERMATEC_PARAMETERS
                            THEN "ParameterNotFound" ELSE "ValueError")
           /\ (IF inv.dflt THEN defaultSnap ELSE snapshot) = inv.preSnap)

\* The twelve entries of a 0x66 payload, and the call of inv being a set()
\* of a 0x66 parameter with an accepted value, on a connected session, with
\* the off-precondition (C10) met.
C13_Tags ==
    {"price1", "price2", "price3", "price4", "con", "chargePower", "operatingMode",
     "gridSwitch", "adjustMethod", "antiBackflow", "batteryCharge", "soc"}

C13_Set66 ==
    /\ inv.op = "set" /\ AcceptedValue(inv.tag, inv.value) /\ inv.preConnected
    /\ SERMATEC_PARAMETERS[inv.tag].command = 102
    /\ (SERMATEC_PARAMETERS[inv.tag].shouldBeOff
          => ("onOff" \in DOMAIN inv.preSnap /\ inv.preSnap["onOff"] = <<170>>))

\* The bytes of entry t: the new value, big-endian on the descriptor's byte
\* length, for the tag being set, the snapshot's bytes for the others.
C13_Entry(t) ==
    IF t = inv.tag
    THEN ToBytes(fromFriendly(SERMATEC_PARAMETERS[inv.tag].converter, inv.value).n,
                 SERMATEC_PARAMETERS[inv.tag].byteLength)
    ELSE inv.preSnap[t]

C13_Expected ==
    C13_Entry("price1") \o C13_Entry("price2") \o C13_Entry("price3") \o C13_Entry("price4")
      \o C13_Entry("con") \o C13_Entry("chargePower") \o C13_Entry("operatingMode")
      \o C13_Entry("gridSwitch") \o C13_Entry("adjustMethod") \o C13_Entry("antiBackflow")
      \o C13_Entry("batteryCharge") \o C13_Entry("soc") \o <<0, 0>>

C13_Sent ==
    /\ running \/ writes > 0
    /\ ret.status \in {"none", "ok", "CommunicationError", "ConnectionResetError"}
    /\ running => (q.cmd = 102 /\ FramePayload(q.data) = C13_Expected)
    /\ writes > 0 => (lastWritten[5] = 102 /\ FramePayload(lastWritten) = C13_Expected)

\* C13 as stated: the payload of a 0x66 set() is the concatenation of the
\* twelve entries in the fixed order with only the target replaced, then two
\* zero bytes; if any of the twelve tags is absent from the snapshot handed
\* in, MissingTaggedData is raised and nothing is written.
C13_Payload66AnyTagAbsent ==
    C13_Set66
       => IF \E t \in C13_Tags : t \notin DOMAIN inv.preSnap
          THEN ~running /\ ret.status = "MissingTaggedData" /\ NothingWritten
          ELSE C13_Sent

\* C13, amended: the same payload; MissingTaggedData is raised and nothing
\* is written if any of the twelve tags other than the one being set is
\* absent from the snapshot handed in (the target's entry is stored before
\* the payload is built, so a snapshot lacking only the target is sent).
C13_Payload66 ==
    C13_Set66
       => IF \E t \in C13_Tags \ {inv.tag} : t \notin DOMAIN inv.preSnap
          THEN ~running /\ ret.status = "MissingTaggedData" /\ NothingWritten
          ELSE C13_Sent

C13_Witness ==
    /\ inv.op = "set" /\ inv.tag = "soc" /\ inv.value = IntV(10) /\ inv.preConnected
    /\ "soc" \notin DOMAIN inv.preSnap
    /\ ret.status = "ok" /\ writes = 1 /\ lastWritten[5] = 102
    /\ FramePayload(lastWritten)
         = <<0, 1, 0, 1, 0, 1, 0, 1, 0, 1, 0, 1, 0, 1, 0, 1, 0, 1, 0, 238, 0, 1, 0, 10, 0, 0>>

\* C14: __sendQuery for a write command (0x64, 0x66) expects no response: it
\* never reads, and the step in which a write-and-flush succeeds (the write
\* neither timed out nor met a reset) ends the call successfully with an
\* empty list of frames, the session still connected.
C14_Step ==
    /\ (q'.pc # "idle" /\ q'.cmd \in {100, 102}) => (q'.need = 0 /\ q'.pc = "write")
    /\ (q.pc = "write" /\ q.cmd \in {100, 102} /\ writes' = writes + 1
          /\ sock' = "open" /\ lastOutcome' # "SendTimeout")
         => (/\ ~running' /\ q'.pc = "idle"
             /\ lastOutcome' = "Ok"
             /\ qres' = [status |-> "ok", frames |-> <<>>]
             /\ ret' = [status |-> "ok", frames |-> <<>>]
             /\ connected')

C14_FireAndForget == [][C14_Step]_vars

C14_Witness ==
    /\ inv.op = "set" /\ inv.tag = "antiBackflow"
    /\ attempts = 2 /\ writes = 2 /\ lastOutcome = "Ok" /\ lastWritten[5] = 102
    /\ ~running /\ qres = [status |-> "ok", frames |-> <<>>] /\ connected

\* The commands answered by one frame carrying the command's own code.
SingleResponse(command) == command \notin {149, 100, 102, 106}

\* C15 as stated: for every command C and payload P the request built by
\* generateRequest(C, P), sender and receiver exchanged, passes
\* checkResponseIntegrity([frame], C).
C15_EchoPassesAnyCommand ==
    (/\ applied.fn = "checkResponseIntegrity" /\ applied.done
     /\ Len(applied.responses) = 1
     /\ FramePayload(applied.responses[1]) \in CodecPayloads
     /\ applied.responses = <<Echo(applied.command, FramePayload(applied.responses[1]))>>)
       => applied.result = "True"

\* C15, amended: the same for every command answered by one frame with the
\* command's own code (every command but 0x95, 0x64, 0x66, 0x6A) and every
\* payload of up to 255 bytes.
C15_EchoPasses ==
    (/\ applied.fn = "checkResponseIntegrity" /\ applied.done
     /\ SingleResponse(applied.command)
     /\ Len(applied.responses) = 1
     /\ FramePayload(applied.responses[1]) \in CodecPayloads
     /\ applied.responses = <<Echo(applied.command, FramePayload(applied.responses[1]))>>)
       => applied.result = "True"

C15_Witness ==
    /\ applied.fn = "checkResponseIntegrity" /\ applied.done /\ applied.command = 10
    /\ applied.responses = <<Echo(10, LongPayload)>>
    /\ Len(applied.responses[1]) = 264
    /\ applied.result = "True"

\* r is a damaged copy of f: the checksum byte changed, the frame cut to
\* fewer than 8 bytes, or the command byte replaced by another code (with
\* the old checksum, or with the checksum of the new frame).
C16_DamageOf(r, f, command) ==
    \/ Len(r) = Len(f) /\ r # f /\ ChecksumSet(r, f[Len(f) - 1]) = f
    \/ Len(r) < 8 /\ r = Truncated(f, Len(r))
    \/ /\ Len(r) = Len(f) /\ r[5] # command
       /\ (CommandSet(r, command) = f \/ r = Echo(r[5], FramePayload(f)))

\* The frames f of the model that r may be a damaged copy of: a truncated
\* copy may come from any of them, the other kinds keep the payload.
C16_Sources(r, command) ==
    IF Len(r) < 8 THEN {Echo(command, p) : p \in CodecPayloads}
    ELSE IF FramePayload(r) \in CodecPayloads THEN {Echo(command, FramePayload(r))}
    ELSE {}

\* C16: starting from a frame f that passes checkResponseIntegrity for the
\* command, each of these frames fails it (the result is False): f with its
\* checksum byte changed to any other value, f truncated to fewer than 8
\* bytes, f with its command byte replaced by a code other than the
\* expected response code.
C16_DamagedFails ==
    (/\ applied.fn = "checkResponseIntegrity" /\ applied.done
     /\ Len(applied.responses) = 1 /\ SingleResponse(applied.command))
       => \A f \in C16_Sources(applied.responses[1], applied.command) :
            (/\ checkResponseIntegrity(<<f>>, applied.command) = "True"
             /\ C16_DamageOf(applied.responses[1], f, applied.command))
               => applied.result = "False"

C16_Witness ==
    /\ applied.fn = "checkResponseIntegrity" /\ applied.done /\ applied.command = 152
    /\ applied.responses = << <<254, 85, 20, 100, 152, 0, 0, 77, 174>> >>
    /\ checkResponseIntegrity(<< <<254, 85, 20, 100, 152, 0, 0, 76, 174>> >>, 152) = "True"
    /\ applied.result = "False"

\* C17: checkResponseIntegrity(frames, command) returns False whenever the
\* number of frames differs from the number of response codes expected for
\* the command: one by default, two for 0x95, none for the write commands.
C17_WrongCountIsFalse ==
    (/\ applied.fn = "checkResponseIntegrity" /\ applied.done
     /\ Len(applied.responses) # (IF applied.command = 149 THEN 2
                                  ELSE IF applied.command \in {100, 102, 106} THEN 0 ELSE 1))
       => applied.result = "False"

\* The XOR of two bytes, the XOR of the bytes lo..hi of data (split in
\* halves, XOR being associative), and the XOR of 0x0F with the first n bytes.
Xor8(a, b) ==
    ((Bit(a, 0) + Bit(b, 0)) % 2) + ((Bit(a, 1) + Bit(b, 1)) % 2) * 2
      + ((Bit(a, 2) + Bit(b, 2)) % 2) * 4 + ((Bit(a, 3) + Bit(b, 3)) % 2) * 8
      + ((Bit(a, 4) + Bit(b, 4)) % 2) * 16 + ((Bit(a, 5) + Bit(b, 5)) % 2) * 32
      + ((Bit(a, 6) + Bit(b, 6)) % 2) * 64 + ((Bit(a, 7) + Bit(b, 7)) % 2) * 128

RECURSIVE XorRange(_, _, _)
XorRange(data, lo, hi) ==
    IF lo > hi THEN 0
    ELSE IF lo = hi THEN data[lo]
    ELSE LET mid  == (lo + hi) \div 2
             low  == XorRange(data, lo, mid)
             high == XorRange(data, mid + 1, hi)
         IN  Xor8(low, high)

XorFold(data, n) == LET bytes == XorRange(data, 1, n) IN Xor8(15, bytes)

\* C18: generateRequest(C, P) is FE 55 64 14 C 00 len(P) P checksum AE, the
\* checksum being one byte, the XOR of 0x0F with every byte before it; with
\* an empty payload and C = 0x98, 0x0A, 0x0B, 0x95 it is, byte for byte, the
\* legacy client's REQ_SYSINFO, REQ_BATTERY, REQ_GRIDPV, REQ_WPAMS.
C18_RequestLayout ==
    (applied.fn = "generateRequest" /\ applied.done)
       => (/\ Len(applied.result) = Len(applied.payload) + 9
           /\ Slice(applied.result, 0, 7)
                = <<254, 85, 100, 20, applied.command, 0, Len(applied.payload)>>
           /\ FramePayload(applied.result) = applied.payload
           /\ applied.result[Len(applied.result) - 1] \in 0..255
           /\ applied.result[Len(applied.result) - 1]
                = XorFold(applied.result, Len(applied.result) - 2)
           /\ applied.result[Len(applied.result)] = 174
           /\ (applied.payload = <<>> /\ applied.command = 152) => applied.result = REQ_SYSINFO
           /\ (applied.payload = <<>> /\ applied.command = 10) => applied.result = REQ_BATTERY
           /\ (applied.payload = <<>> /\ applied.command = 11) => applied.result = REQ_GRIDPV
           /\ (applied.payload = <<>> /\ applied.command = 149) => applied.result = REQ_WPAMS)

C18_Witness ==
    /\ applied.fn = "generateRequest" /\ applied.done
    /\ applied.command = 149 /\ applied.payload = <<>>
    /\ applied.result = <<254, 85, 100, 20, 149, 0, 0, 65, 174>>

\* The version entries of a schema with version <= v that define command c.
C19_Defining(osim, c, v) ==
    {i \in 1..Len(osim) :
        /\ osim[i].version <= v
        /\ \E k \in 1..Len(osim[i].commands) : ParseHex(osim[i].commands[k].type) = c}

C20_Key(value) == [str |-> value.k = "str", s |-> value.s, n |-> value.n]

\* C20: MapConverter(table, ...) raises DuplicateMapValue when two raw codes
\* of the table map to the same friendly value, and returns a converter
\* over the whole table when the friendly values are pairwise distinct.
C20_DuplicateValueRejected ==
    (applied.fn = "MapConverter" /\ applied.done)
       => IF Cardinality({C20_Key(applied.map[i][2]) : i \in 1..Len(applied.map)})
               < Len(applied.map)
          THEN applied.result.raised = "DuplicateMapValue"
          ELSE applied.result.raised = "" /\ applied.result.map = applied.map

C20_Witness ==
    /\ applied.fn = "MapConverter" /\ applied.done
    /\ applied.map = << <<1, StrV("a")>>, <<3, StrV("b")>>, <<2, StrV("a")>> >>
    /\ applied.result.raised = "DuplicateMapValue"

\* C21: getCustom either raises, handing nothing back, or returns the map
\* merged from every expected response frame of the command: one frame per
\* response code, in the order of the codes (0x95 then 0x9D for 0x95), each
\* of them a frame that passed the integrity check.
C21_CompleteOrRaise ==
    (inv.op = "getCustom" /\ ~running)
       => IF ret.status = "ok"
          THEN LET pairs == ParsedPairs(ret.frames, inv.cmd)
                   responseCodes == getResponseCommands(inv.cmd)
               IN  /\ Len(pairs) = Len(responseCodes)
                   /\ Len(ret.frames) = Len(responseCodes)
                   /\ \A i \in 1..Len(pairs) :
                         /\ pairs[i][1] = responseCodes[i]
                         /\ ResponseOk(pairs[i][2], responseCodes[i])
          ELSE ret.frames = <<>>

C21_Witness ==
    /\ inv.op = "getCustom" /\ inv.cmd = CMD_WPARAMS /\ ~running
    /\ ret.status = "ok" /\ attempts = 2
    /\ ParsedPairs(ret.frames, inv.cmd)
         = << <<CMD_WPARAMS, Response(CMD_WPARAMS, <<>>)>>,
              <<CMD_WPARAMS2, Response(CMD_WPARAMS2, <<>>)>> >>

\* C22: a process running get, list or customget whose connection to the
\* inverter could not be established ends with a non-zero exit status.
C22_FailedExitOnConnectFailure ==
    (applied.fn = "main" /\ applied.pc = "exited" /\ applied.connectFailed)
       => applied.exit # 0

\* The host refuses its first two TCP connection attempts and accepts the third.
C23_RefusesTwice ==
    /\ applied.fn = "caller"
    /\ applied.host[1] = "fail" /\ applied.host[2] = "fail" /\ applied.host[3] = "ok"

\* One connect() call makes one TCP open attempt, and none is made between calls.
C23_OneOpenPerCall ==
    applied.fn = "caller" =>
       /\ (applied'.calls = applied.calls + 1 /\ ~connected) => applied'.opens = applied.opens + 1
       /\ applied'.calls = applied.calls => applied'.opens = applied.opens
       /\ applied'.calls <= CALLER_RETRIES + 1

C23_Connected ==
    /\ applied.pc = "ended" /\ applied.calls = 3 /\ applied.opens = 3
    /\ lastOutcome # "ConnectionResetError" => connected

\* C23: connect() makes exactly one TCP open attempt per call and none in
\* between; under the caller's loop (one call and up to 3 retries while
\* connect returns false) a host that refuses the first two attempts and
\* accepts the third is eventually connected to, with the third call, as
\* long as it does not reset the accepted connection during that call.
C23_CallerRetry ==
    /\ [][C23_OneOpenPerCall]_vars
    /\ [](C23_RefusesTwice /\ applied.pc = "ended" => C23_Connected)
    /\ (C23_RefusesTwice ~> C23_Connected)

C23_Witness ==
    /\ C23_RefusesTwice /\ applied.who = "async_setup_entry"
    /\ applied.pc = "ended" /\ applied.calls = 3 /\ applied.retries = 1
    /\ connected /\ pcuVersion = 1 /\ applied.raised = ""

\* The start offset the rule of C24 gives field i of a field list: offset 7
\* for the first field; after that the start of the field before when the
\* field is flagged same-offset, else that start plus that field's byte
\* length times its repeat count.
RECURSIVE C24_Start(_, _)
C24_Start(cmdFields, i) ==
    IF i = 1 THEN 7
    ELSE IF cmdFields[i].same THEN C24_Start(cmdFields, i - 1)
    ELSE C24_Start(cmdFields, i - 1)
           + cmdFields[i - 1].byteLen
               * (IF cmdFields[i - 1].repeat # 0 THEN cmdFields[i - 1].repeat ELSE 1)

\* The fields parseParameterReply keeps: tagged, not repeated, not preserve.
C24_Kept(cmdFields) ==
    SelectSeq([i \in 1..Len(cmdFields) |-> i],
              LAMBDA i : /\ cmdFields[i].tag # "" /\ cmdFields[i].repeat = 0
                         /\ cmdFields[i].type # "preserve")

\* C24: in parseReply (live or dry run) and in parseParameterReply alike, a
\* field list whose first field is not flagged same-offset has its fields
\* read at the start offsets of the rule above, excluded fields (preserve,
\* repeat, untagged, unsupported) moving the cursor like the others; the raw
\* bytes parseParameterReply stores for a tag are those at the field's start.
C24_CursorRule ==
    (/\ applied.fn \in {"parseReply", "parseParameterReply"} /\ applied.done
     /\ Len(applied.fields) > 0 /\ ~applied.fields[1].same)
       => /\ \A i \in 1..Len(applied.result.log) :
                applied.result.log[i] = C24_Start(applied.fields, i)
          /\ applied.result.status = "ok" => Len(applied.result.log) = Len(applied.fields)
          /\ (applied.fn = "parseParameterReply" /\ applied.result.status = "ok")
                => /\ Len(applied.result.data) = Len(C24_Kept(applied.fields))
                   /\ \A j \in 1..Len(applied.result.data) :
                         LET i == C24_Kept(applied.fields)[j]
                         IN  /\ applied.result.data[j].key = applied.fields[i].tag
                             /\ applied.fields[i].tag # "onOff"
                                  => applied.result.data[j].bytes
                                       = Slice(applied.reply, C24_Start(applied.fields, i),
                                               C24_Start(applied.fields, i)
                                                 + applied.fields[i].byteLen)

C24_Witness ==
    /\ applied.fn = "parseParameterReply" /\ applied.done
    /\ Len(applied.fields) = 3
    /\ applied.fields[1].repeat = 3 /\ applied.fields[2].same /\ applied.fields[3].tag = "soc"
    /\ applied.result.status = "ok"
    /\ applied.result.log = <<7, 7, 8>>
    /\ applied.result.data = << [key |-> "soc", bytes |-> <<246, 0>>] >>

\* The single field of a one-field definition, not a repeated one, lies
\* within the payload of the reply.
OneFieldWithinPayload ==
    /\ applied.fn = "parseReply" /\ applied.done /\ ~applied.dryrun
    /\ Len(applied.fields) = 1
    /\ ~applied.fields[1].same /\ applied.fields[1].repeat = 0
    /\ applied.fields[1].byteLen \in 1..Len(FramePayload(applied.reply))

\* The unsigned big-endian value of the first one or two payload bytes.
UnsignedOf(payload, byteLen) ==
    IF byteLen = 1 THEN payload[1] ELSE payload[1] * 256 + payload[2]

\* C25: a bit field decodes to true exactly when bit bitPosition of the
\* field's unsigned big-endian value is 1, a bitRange field [fromBit, endBit)
\* to (value >> fromBit) & ((1 << (endBit - fromBit)) - 1); [2,6) over
\* 0b00111100 gives 15, bit 0 of 0x01 is true, bit 1 of 0x01 is false.
C25_BitFields ==
    (OneFieldWithinPayload /\ applied.fields[1].type \in {"bit", "bitRange"}
       /\ applied.fields[1].fromBit <= applied.fields[1].endBit)
       => LET field == applied.fields[1]
              payload == FramePayload(applied.reply)
              value == UnsignedOf(payload, field.byteLen)
              decoded == applied.result.data[1].value
          IN  /\ applied.result.status = "ok" /\ Len(applied.result.data) = 1
              /\ field.type = "bit"
                   => /\ decoded.k = "bool"
                      /\ (decoded.n = 1) <=> ((value \div (2 ^ field.bitPosition)) % 2 = 1)
              /\ field.type = "bitRange"
                   => /\ decoded.k = "int"
                      /\ decoded.n = (value \div (2 ^ field.fromBit))
                                       % (2 ^ (field.endBit - field.fromBit))
              /\ (field.type = "bitRange" /\ field.fromBit = 2 /\ field.endBit = 6
                    /\ payload = <<60>>) => decoded.n = 15
              /\ (field.type = "bit" /\ field.bitPosition = 0 /\ payload = <<1>>) => decoded.n = 1
              /\ (field.type = "bit" /\ field.bitPosition = 1 /\ payload = <<1>>) => decoded.n = 0

C25_Witness ==
    /\ OneFieldWithinPayload
    /\ applied.fields[1].type = "bitRange"
    /\ applied.fields[1].fromBit = 2 /\ applied.fields[1].endBit = 6
    /\ FramePayload(applied.reply) = <<60>>
    /\ applied.result.data[1].value = IntD(15)

\* The value of a decoded number times 100, so that one and two decimal
\* places compare as integers.
C26_Hundredths(decoded) ==
    IF decoded.places = 0 THEN decoded.n * 100
    ELSE IF decoded.places = 1 THEN decoded.n * 10 ELSE decoded.n

\* Two's complement of an unsigned value of the given byte length.
C26_Signed(value, byteLen) ==
    IF value >= 2 ^ (8 * byteLen - 1) THEN value - 2 ^ (8 * byteLen) ELSE value

\* C26: int and long fields decode as two's-complement signed big-endian
\* integers, uInt fields as unsigned big-endian integers, each multiplied by
\* the field's unit multiplier: FF F6 as int gives -10, 00 0A as uInt with
\* multiplier 0.1 gives 1.0.
C26_Integers ==
    (OneFieldWithinPayload /\ applied.fields[1].type \in {"int", "long", "uInt"}
       /\ NameBased(applied.fields[1].name) = {})
       => LET field == applied.fields[1]
              payload == FramePayload(applied.reply)
              unsigned == UnsignedOf(payload, field.byteLen)
              integer == IF field.type = "uInt" THEN unsigned
                         ELSE C26_Signed(unsigned, field.byteLen)
              decoded == applied.result.data[1].value
          IN  /\ applied.result.status = "ok" /\ Len(applied.result.data) = 1
              /\ decoded.k = (IF field.unitValue.has THEN "float" ELSE "int")
              \* multiplier = unitValue.k / 10^unitValue.d
              /\ C26_Hundredths(decoded) * (10 ^ field.unitValue.d)
                   = integer * field.unitValue.k * 100
              /\ (field.type = "int" /\ field.byteLen = 2 /\ ~field.unitValue.has
                    /\ payload = <<255, 246>>)
                    => decoded = IntD(-10)
              /\ (field.type = "uInt" /\ field.byteLen = 2 /\ field.unitValue = UnitValue(1, 1)
                    /\ payload = <<0, 10>>)
                    => decoded = FloatD(10, 1)

C26_Witness ==
    /\ OneFieldWithinPayload
    /\ applied.fields[1].type = "uInt" /\ applied.fields[1].byteLen = 2
    /\ applied.fields[1].unitValue = UnitValue(1, 1)
    /\ FramePayload(applied.reply) = <<0, 10>>
    /\ applied.result.data[1].value.k = "float"
    /\ applied.result.data[1].value.n = 10 /\ applied.result.data[1].value.places = 1

\* The value is a key of the converter's table / a value of it (Python's
\* dict lookup: equal hash and ==, so True is found where 1 is stored).
C27_CodeInTable(converter, value) ==
    value.k # "str" /\ \E i \in 1..Len(converter.map) : converter.map[i][1] = value.n
C27_FriendlyInTable(converter, value) ==
    \E i \in 1..Len(converter.map) : PyEq(converter.map[i][2], value)

\* C27: for every converter the parser class creates, a raw code of the table
\* taken through toFriendly and back through fromFriendly is the same raw
\* code, a friendly value of the table taken through fromFriendly and back
\* through toFriendly is the same friendly value, a raw code outside the
\* table converts to the default friendly value and a friendly value outside
\* the table to the default raw code.
C27_RoundTrips ==
    (applied.fn \in {"toFriendly", "fromFriendly"} /\ applied.pc # "first")
       => LET converter == Converters[applied.converter]
              value == applied.value
          IN  /\ converter.raised = ""
              /\ applied.fn = "toFriendly"
                    => IF C27_CodeInTable(converter, value)
                       THEN applied.pc = "ended" => applied.back = value
                       ELSE applied.there = converter.defFriendly
              /\ applied.fn = "fromFriendly"
                    => IF C27_FriendlyInTable(converter, value)
                       THEN applied.pc = "ended"
                               => /\ PyEq(applied.back, value)
                                  /\ (\E i \in 1..Len(converter.map) : converter.map[i][2] = value)
                                        => applied.back = value
                       ELSE applied.there = IntV(converter.defNotFriendly)

\* Raw code 0 of the AC operation mode table was taken to "unknown mode", an
\* entry of the table that is also the default, and back.
C27_Witness ==
    /\ applied.fn \in {"toFriendly", "fromFriendly"} /\ applied.pc = "ended"
    /\ Converters[applied.converter] = CONVERTER_AC_OP_MODE
    /\ applied.fn = "toFriendly" /\ applied.value = IntV(0)
    /\ applied.there = StrV("unknown mode") /\ applied.back = IntV(0)

\* The fields of the frames parsed that parseParameterReply keeps under the
\* tag, as <<pair, field>> indices, and the one stored last.
C28_Kept(tag) ==
    {pf \in (1..Len(applied.parsed)) \X (1..2) :
        /\ pf[2] <= Len(applied.schema[applied.parsed[pf[1]][1]])
        /\ LET field == applied.schema[applied.parsed[pf[1]][1]][pf[2]]
           IN  field.tag = tag /\ field.type # "preserve" /\ field.repeat = 0}
C28_Last(tag) ==
    CHOOSE pf \in C28_Kept(tag) :
        \A other \in C28_Kept(tag) :
            other[1] < pf[1] \/ (other[1] = pf[1] /\ other[2] <= pf[2])

\* The bytes of that field in its frame: the fields of these lists follow one
\* another from offset 7 on.
C28_Offset(pf) ==
    IF pf[2] = 1 THEN 7 ELSE 7 + applied.schema[applied.parsed[pf[1]][1]][1].byteLen
C28_Raw(pf) ==
    LET field == applied.schema[applied.parsed[pf[1]][1]][pf[2]]
    IN  Slice(applied.parsed[pf[1]][2], C28_Offset(pf), C28_Offset(pf) + field.byteLen)
C28_InPayload(pf) ==
    LET field == applied.schema[applied.parsed[pf[1]][1]][pf[2]]
    IN  C28_Offset(pf) + field.byteLen <= Len(applied.parsed[pf[1]][2]) - 2

\* C28: getParameterData queries 0x0C, then 0x95; in the dictionary it
\* returns, the entry of each tag is that of the last field carrying the
\* tag in the frames parsed: for the bit tagged onOff (reported within the
\* payload) the single byte 0x55 when the bit is set and 0xAA when it is
\* clear, so that isInverterOff holds of it exactly when the bit is clear,
\* and for every other field the bytes of the frame as they are.
C28_Snapshot ==
    (applied.fn = "getParameterData" /\ applied.done /\ applied.raised = "")
       => /\ applied.queried = <<12, 149>>
          /\ [i \in 1..Len(applied.parsed) |-> applied.parsed[i][1]] = <<12, 149, 157>>
          /\ DOMAIN applied.parsedResponse = {tag \in {"onOff", "soc", "antiBackflow"} :
                                                 C28_Kept(tag) # {}}
          /\ \A tag \in DOMAIN applied.parsedResponse :
                LET pf == C28_Last(tag)
                    entry == applied.parsedResponse[tag]
                    field == applied.schema[applied.parsed[pf[1]][1]][pf[2]]
                    bit == (C28_Raw(pf)[1] \div (2 ^ field.bitPosition)) % 2
                IN  IF tag = "onOff"
                    THEN C28_InPayload(pf)
                            => /\ entry = (IF bit = 1 THEN <<85>> ELSE <<170>>)
                               /\ isInverterOff(entry) <=> (bit = 0)
                    ELSE entry = C28_Raw(pf)

\* A snapshot was returned whose onOff entry says on, and one whose soc entry
\* comes from the 0x95 frame and not from the 0x0C frame.
C28_Witness ==
    /\ applied.fn = "getParameterData" /\ applied.done /\ applied.raised = ""
    /\ applied.parsedResponse["onOff"] = <<85>>
    /\ applied.parsed[1][2] = Response(CMD_RUNNING, <<1, 5>>)
    /\ applied.parsedResponse["soc"] = <<2, 6>>

\* C29: once set() on the caller's snapshot has raised MissingTaggedData or
\* InverterIsNotOff, the snapshot is what it was before the call.
C29_RejectedSetLeavesSnapshot ==
    (/\ inv.op = "set" /\ ~inv.dflt /\ ~running
     /\ ret.status \in {"MissingTaggedData", "InverterIsNotOff"})
       => snapshot = inv.preSnap

\* The antiBackflow bytes of a 0x66 request frame: the tenth two-byte entry
\* of its payload.
C30_AntiBackflowOf(frame) == Slice(frame, 7 + 18, 7 + 20)

\* C30: every 0x66 frame written in a sequence of set calls on one snapshot
\* carries as antiBackflow the bytes read from the device or the bytes of a
\* set("antiBackflow", ...) that passed the off test; a value whose set was
\* rejected is never written.
C30_RejectedNeverSent ==
    (applied.fn = "sets" /\ Len(lastWritten) > 7 /\ lastWritten[5] = 102)
       => C30_AntiBackflowOf(lastWritten) \in applied.read \cup applied.passed

\* C31: set() called without a snapshot works on an empty dictionary each
\* time: what an earlier call without a snapshot stored is not there, and
\* set("antiBackflow", v) without a snapshot raises MissingTaggedData.
C31_DefaultSnapshotIsFresh ==
    (inv.op = "set" /\ inv.dflt)
       => /\ inv.preSnap = EmptySnap
          /\ (~running /\ inv.tag = "antiBackflow" /\ inv.value.k = "bool")
                => ret.status = "MissingTaggedData"


\* C32: whenever connect() has returned true, isConnected() is true at that
\* moment, also when the discovery query ended in a connection reset.
C32_TrueMeansConnected ==
    (inv.op = "connect" /\ ~running /\ ret.status = "true") => isConnected


\* C33: after connect(version = v) with a stated version has returned true,
\* the cached PCU version equals v, also when the session was already
\* connected with another cached version.
C33_PinnedVersionCached ==
    (inv.op = "connect" /\ Pinned(inv.version) /\ ~running /\ ret.status = "true")
       => pcuVersion = inv.version


\* C34: every frame list a successful __sendQuery of command C hands back
\* has exactly as many frames as getResponseCommands(C) has codes, and its
\* i-th frame carries the i-th expected response code, whatever frames of
\* earlier attempts or of other commands the reads delivered before.  C is
\* the command byte of the request frame the call wrote.
C34_FramesMatchCodes ==
    (~running /\ qres.status = "ok")
       => LET responseCodes == getResponseCommands(lastWritten[5])
          IN  /\ writes > 0
              /\ Len(qres.frames) = Len(responseCodes)
              /\ \A i \in 1..Len(responseCodes) :
                    /\ Len(qres.frames[i]) >= 5
                    /\ qres.frames[i][5] = responseCodes[i]

\* A query of 0x95 answered in the third attempt, after two attempts whose
\* reads delivered other frames.
C34_Witness ==
    /\ ~running /\ qres.status = "ok" /\ attempts = 3 /\ writes = 3
    /\ lastWritten = generateRequest(CMD_WPARAMS, <<>>)
    /\ qres.frames = <<Response(CMD_WPARAMS, <<>>), Response(CMD_WPARAMS2, <<>>)>>


\* C35: one call of set() hands its write frame to the transport at most
\* once: a timed-out write does not make the same frame be written again.
C35_WrittenAtMostOnce ==
    inv.op = "set" => writes <= 1


\* C36: checkResponseIntegrity accepts a frame only if its payload-length
\* byte (byte 6) equals the number of bytes between the 7-byte header and
\* the checksum byte.
C36_LengthByteChecked ==
    (applied.fn = "checkResponseIntegrity" /\ applied.done /\ applied.result = "True")
       => \A i \in 1..Len(applied.responses) :
             applied.responses[i][REPLY_OFFSET_DATA] = Len(FramePayload(applied.responses[i]))


\* Field i of the decoded list lies within the payload of the reply: it ends
\* before the checksum byte.
C37_WithinPayload(i) ==
    applied.result.log[i] + applied.fields[i].byteLen <= Len(applied.reply) - 2

\* The place in the result of the entry of field i, the ignored fields having none.
C37_EntryOf(i) == Cardinality({j \in 1..i : ~ReplyIgnored(applied.fields[j], FALSE)})

\* C37: decoding a validated response never takes field bytes from outside
\* the payload: a field that reaches into the checksum or footer byte, or
\* past the end of the frame, is not reported with a value (parseReply) and
\* has no entry in the parameter snapshot (parseParameterReply).
C37_FieldsFromPayloadOnly ==
    /\ (/\ applied.fn = "parseReply" /\ applied.done /\ ~applied.dryrun
        /\ applied.result.status = "ok"
        /\ checkResponseIntegrity(<<applied.reply>>, CMD_RUNNING) = "True")
          => \A i \in 1..Len(applied.fields) :
                (~ReplyIgnored(applied.fields[i], FALSE) /\ ~C37_WithinPayload(i))
                   => ~applied.result.data[C37_EntryOf(i)].hasValue
    /\ (/\ applied.fn = "parseParameterReply" /\ applied.done
        /\ applied.result.status = "ok"
        /\ checkResponseIntegrity(<<applied.reply>>, CMD_RUNNING) = "True")
          => \A i \in 1..Len(applied.fields) :
                ~ParameterIgnored(applied.fields[i]) => C37_WithinPayload(i)


\* The keys of a decoded map.
C38_Keys(parsed) == {parsed.data[i].key : i \in 1..Len(parsed.data)}

\* C38: for every field list, the keys a dry-run decode returns (what
\* listSensors and listBinarySensors list) are the keys a live decode of a
\* frame returns for the same field list.
C38_DryRunListsLiveKeys ==
    (/\ applied.fn = "parseReply" /\ applied.done /\ ~applied.dryrun
     /\ applied.result.status = "ok")
       => /\ parseReply(applied.fields, <<>>, TRUE).status = "ok"
          /\ C38_Keys(parseReply(applied.fields, <<>>, TRUE)) = C38_Keys(applied.result)


\* C39: every cycle of the coordinator that connected to the inverter ends
\* with the session disconnected, whether its queries succeeded, were
\* skipped after a reset or failed after their last attempt; the next cycle
\* therefore begins on a disconnected session.
C39_CycleEndsDisconnected ==
    applied.fn = "_async_update_data"
       => /\ (applied.pc = "ended" /\ applied.didConnect) => ~isConnected
          /\ ~applied.startedConnected

====
